---- MODULE Spec2Model ----
(***************************************************************************)
(* Discovery-and-verification core of Real-Search:                         *)
(* WebSearchCSEAdapter.search (crawler_service/adapters/websearch_cse.py)  *)
(* with the budget ledger it reserves from, the link verifier it gates on  *)
(* and the shared numeric filter (crawler_service/adapters/base.py).       *)
(*                                                                         *)
(* Strings are sequences of tokens: a token is one character of a URL      *)
(* (the scheme "http:" and the "//" after it are one token each) or one    *)
(* word of a title or snippet.  Optional values are <<>> (None) or <<v>>.  *)
(* Scores are in half points (1.5 is 3), rates in tenths (0.1 is 1).       *)
(***************************************************************************)
EXTENDS Integers, Sequences, FiniteSets, TLC

\* ------------------------------------------------------------ bounds
MaxRaw == 2
MaxGlobalCap == 2
MaxHostCap == 2
MaxCallers == 3
MaxFrontier == 3
MaxEnvLen == 5
MaxClock == 3

\* ------------------------------------------------------------ strings
NoneVal == <<>>

Some(v) == <<v>>

IsNone(x) == x = <<>>

\* Python truthiness of an Optional number: None and 0 are falsy.
Truthy(x) == x # <<>> /\ x[1] # 0

\* x or y
OrElse(x, y) == IF Truthy(x) THEN x ELSE y

UpperMap ==
  [t \in {"A", "B", "X", "Y", "Q", "F", "Land", "LAND", "Acres", "Indiana",
          "Tippecanoe", "County", "Parcel"} |->
     CASE t = "A" -> "a" [] t = "B" -> "b" [] t = "X" -> "x" [] t = "Y" -> "y"
       [] t = "Q" -> "q" [] t = "F" -> "f"
       [] t = "Land" -> "land" [] t = "LAND" -> "land" [] t = "Acres" -> "acres"
       [] t = "Indiana" -> "indiana" [] t = "Tippecanoe" -> "tippecanoe"
       [] t = "County" -> "county" [] t = "Parcel" -> "parcel"]

LowerTok(t) == IF t \in DOMAIN UpperMap THEN UpperMap[t] ELSE t

\* str.lower()
Lower(s) == [i \in 1..Len(s) |-> LowerTok(s[i])]

\* str.upper() of a code spelled letter by letter
UpperOf ==
  [t \in {"a", "e", "g", "x", "r", "v"} |->
     CASE t = "a" -> "A" [] t = "e" -> "E" [] t = "g" -> "G" [] t = "x" -> "X"
       [] t = "r" -> "R" [] t = "v" -> "V"]

UpperTok(t) == IF t \in DOMAIN UpperOf THEN UpperOf[t] ELSE t

Upper(s) == [i \in 1..Len(s) |-> UpperTok(s[i])]

\* Python's `pat in text` for strings spelled letter by letter
Contains(text, pat) ==
  \E i \in 1..(Len(text) + 1) :
    /\ i + Len(pat) - 1 <= Len(text)
    /\ SubSeq(text, i, i + Len(pat) - 1) = pat

IsSpace(t) == t = " "

RECURSIVE LStrip(_)
LStrip(s) == IF s # <<>> /\ IsSpace(Head(s)) THEN LStrip(Tail(s)) ELSE s

RECURSIVE RStrip(_)
RStrip(s) ==
  IF s # <<>> /\ IsSpace(s[Len(s)]) THEN RStrip(SubSeq(s, 1, Len(s) - 1)) ELSE s

\* str.strip()
Strip(s) == RStrip(LStrip(s))

\* utils.squish_spaces: whitespace runs collapse, the ends are stripped; the
\* words of the text are what is left.
SquishSpaces(s) == SelectSeq(s, LAMBDA t : ~IsSpace(t))

NetlocEnd == {"/", "?", "#"}

RECURSIVE UpTo(_, _)
UpTo(s, stops) ==
  IF s = <<>> \/ Head(s) \in stops THEN <<>> ELSE <<Head(s)>> \o UpTo(Tail(s), stops)

\* urllib.parse.urlparse(u).netloc: what follows "scheme://" up to the first
\* of "/", "?", "#".
Netloc(u) ==
  IF Len(u) >= 2 /\ u[1] = "http:" /\ u[2] = "//"
  THEN UpTo(SubSeq(u, 3, Len(u)), NetlocEnd)
  ELSE IF Len(u) >= 1 /\ u[1] = "//" THEN UpTo(Tail(u), NetlocEnd)
  ELSE <<>>

\* the normalized URL: lower-cased, stripped
NormUrl(url) == Lower(Strip(url))

\* faulty variant of SeenKey: the case of the link is kept
SeenKeyCaseSensitive(u) == u

\* faulty variant of SeenKey: the query string and the fragment are cut off
SeenKeyNoQueryFragment(u) == Lower(UpTo(u, {"?", "#"}))

\* lines 187-189: the key of seen_urls for the stripped link u
SeenKey(u) == Lower(u)

\* ------------------------------------------------------------ links
A1 == <<"http:", "//", "a", "/", "x">>

A1U == <<"http:", "//", "A", "/", "X">>

A1P == <<" ", "http:", "//", "a", "/", "x", " ">>

A1Q == <<"http:", "//", "a", "/", "x", "?", "q">>

A1F == <<"http:", "//", "a", "/", "x", "#", "f">>

B1 == <<"http:", "//", "b", "/", "y">>

Blank == <<" ">>

Links == {A1, A1U, A1P, A1Q, A1F, B1}

\* ------------------------------------------------------------ text search
\* needle is a substring of the word tok
Inside ==
  {<<"acre", "acres">>, <<"$", "$180,000">>, <<"$", "$200,000">>,
   <<"$", "$4,500/acre">>, <<"acre", "$4,500/acre">>, <<"parcel", "parcels">>}

Substr(needle, tok) == needle = tok \/ <<needle, tok>> \in Inside

\* Python's `phrase in text` for a phrase of one or more words
HasPhrase(text, ph) ==
  \E i \in 1..Len(text) :
    /\ i + Len(ph) - 1 <= Len(text)
    /\ \A k \in 1..Len(ph) :
         IF k = 1 \/ k = Len(ph) THEN Substr(ph[k], text[i + k - 1])
         ELSE ph[k] = text[i + k - 1]

\* ------------------------------------------------------------ numeric extraction
PriceOf == [t \in {"$180,000", "$200,000"} |-> IF t = "$180,000" THEN 180000 ELSE 200000]

NumberOf == [t \in {"40", "2"} |-> IF t = "40" THEN 40 ELSE 2]

\* price per acre in cents
PpaOf == [t \in {"$4,500/acre"} |-> 450000]

RECURSIVE FirstIn(_, _)
FirstIn(text, table) ==
  IF text = <<>> THEN NoneVal
  ELSE IF Head(text) \in DOMAIN table THEN Some(table[Head(text)])
  ELSE FirstIn(Tail(text), table)

\* utils.parse_price: the first "$<amount>" of the text, None when there is none
ParsePrice(text) == FirstIn(text, PriceOf)

RECURSIVE ParseAcres(_)
\* utils.parse_acres: the first "<number> acre(s)" of the text
ParseAcres(text) ==
  IF Len(text) < 2 THEN NoneVal
  ELSE IF text[1] \in DOMAIN NumberOf /\ Substr("acre", LowerTok(text[2]))
       THEN Some(NumberOf[text[1]])
       ELSE ParseAcres(Tail(text))

\* utils.parse_price_per_acre: the first "$<amount>/acre" of the text
ParsePricePerAcre(text) == FirstIn(text, PpaOf)

\* round(price / acres, 2) in cents, halves rounded up
RoundedRatio(price, acres) == (200 * price + acres) \div (2 * acres)

\* utils.price_per_acre(p, ac): None unless both are known and acres is not 0
PricePerAcre(p, ac) ==
  IF Truthy(p) /\ Truthy(ac) THEN Some(RoundedRatio(p[1], ac[1])) ELSE NoneVal

\* ------------------------------------------------------------ criteria
\* models.Criteria (fields as in ui_app.Criteria); max_price_per_acre in cents
CritIndiana ==
  [state |-> <<"Indiana">>, county_normalized |-> <<"Tippecanoe">>,
   max_price_per_acre |-> Some(800000), min_acres |-> Some(5), max_acres |-> NoneVal,
   power_nearby |-> FALSE, exclude_flood_zone |-> FALSE, zoning_whitelist |-> <<>>]

\* ------------------------------------------------------------ scoring
HasEither(s, t, ph) == HasPhrase(s, ph) \/ HasPhrase(t, ph)

\* domain.endswith(d) for some preferred d
IsPreferred(domain, preferred) ==
  \E i \in 1..Len(preferred) :
    /\ Len(preferred[i]) <= Len(domain)
    /\ SubSeq(domain, Len(domain) - Len(preferred[i]) + 1, Len(domain)) = preferred[i]

\* faulty variant of ScoreItem: title and snippet are not lower-cased
ScoreItemCaseSensitive(title, snippet, domain, c, preferred) ==
  LET t == title
      s == snippet
      st == Lower(c.state)
      co == Lower(c.county_normalized)
      ac == ParseAcres(snippet)
      ppa == ParsePricePerAcre(snippet)
  IN  (IF HasEither(s, t, <<"land", "for", "sale">>) THEN 6 ELSE 0)
    + (IF HasEither(s, t, <<"acre">>) THEN 4 ELSE 0)
    + (IF HasEither(s, t, <<"$">>) THEN 4 ELSE 0)
    + (IF \/ HasPhrase(s, <<"mls">>) \/ HasPhrase(s, <<"apn">>)
          \/ HasPhrase(s, <<"parcel">>) \/ HasPhrase(s, <<"lot", "size">>)
       THEN 3 ELSE 0)
    + (IF st # <<>> /\ HasEither(s, t, st) THEN 2 ELSE 0)
    + (IF co # <<>> /\ HasEither(s, t, co) THEN 3 ELSE 0)
    + (IF ~IsNone(ppa) /\ Truthy(c.max_price_per_acre)
          /\ ppa[1] <= c.max_price_per_acre[1] THEN 6 ELSE 0)
    + (IF ~IsNone(ac) /\ Truthy(c.min_acres) /\ ac[1] >= c.min_acres[1] THEN 2 ELSE 0)
    + (IF ~IsNone(ac) /\ Truthy(c.max_acres) /\ ac[1] <= c.max_acres[1] THEN 2 ELSE 0)
    + (IF preferred # <<>>
          /\ IsPreferred(domain, [i \in 1..Len(preferred) |-> Lower(Strip(preferred[i]))])
       THEN 1 ELSE 0)

\* faulty variant of ScoreItem: every text signal is looked for in the
\* snippet alone
ScoreItemSnippetOnly(title, snippet, domain, c, preferred) ==
  LET s == Lower(snippet)
      st == Lower(c.state)
      co == Lower(c.county_normalized)
      ac == ParseAcres(snippet)
      ppa == ParsePricePerAcre(snippet)
  IN  (IF HasPhrase(s, <<"land", "for", "sale">>) THEN 6 ELSE 0)
    + (IF HasPhrase(s, <<"acre">>) THEN 4 ELSE 0)
    + (IF HasPhrase(s, <<"$">>) THEN 4 ELSE 0)
    + (IF \/ HasPhrase(s, <<"mls">>) \/ HasPhrase(s, <<"apn">>)
          \/ HasPhrase(s, <<"parcel">>) \/ HasPhrase(s, <<"lot", "size">>)
       THEN 3 ELSE 0)
    + (IF st # <<>> /\ HasPhrase(s, st) THEN 2 ELSE 0)
    + (IF co # <<>> /\ HasPhrase(s, co) THEN 3 ELSE 0)
    + (IF ~IsNone(ppa) /\ Truthy(c.max_price_per_acre)
          /\ ppa[1] <= c.max_price_per_acre[1] THEN 6 ELSE 0)
    + (IF ~IsNone(ac) /\ Truthy(c.min_acres) /\ ac[1] >= c.min_acres[1] THEN 2 ELSE 0)
    + (IF ~IsNone(ac) /\ Truthy(c.max_acres) /\ ac[1] <= c.max_acres[1] THEN 2 ELSE 0)
    + (IF preferred # <<>>
          /\ IsPreferred(domain, [i \in 1..Len(preferred) |-> Lower(Strip(preferred[i]))])
       THEN 1 ELSE 0)

\* faulty variant of ScoreItem: an acreage that cannot be read costs a point
ScoreItemPenalizesUnknown(title, snippet, domain, c, preferred) ==
  LET t == Lower(title)
      s == Lower(snippet)
      st == Lower(c.state)
      co == Lower(c.county_normalized)
      ac == ParseAcres(snippet)
      ppa == ParsePricePerAcre(snippet)
  IN  (IF HasEither(s, t, <<"land", "for", "sale">>) THEN 6 ELSE 0)
    + (IF HasEither(s, t, <<"acre">>) THEN 4 ELSE 0)
    + (IF HasEither(s, t, <<"$">>) THEN 4 ELSE 0)
    + (IF \/ HasPhrase(s, <<"mls">>) \/ HasPhrase(s, <<"apn">>)
          \/ HasPhrase(s, <<"parcel">>) \/ HasPhrase(s, <<"lot", "size">>)
       THEN 3 ELSE 0)
    + (IF st # <<>> /\ HasEither(s, t, st) THEN 2 ELSE 0)
    + (IF co # <<>> /\ HasEither(s, t, co) THEN 3 ELSE 0)
    + (IF ~IsNone(ppa) /\ Truthy(c.max_price_per_acre)
          /\ ppa[1] <= c.max_price_per_acre[1] THEN 6 ELSE 0)
    + (IF ~IsNone(ac) /\ Truthy(c.min_acres) /\ ac[1] >= c.min_acres[1] THEN 2 ELSE 0)
    + (IF ~IsNone(ac) /\ Truthy(c.max_acres) /\ ac[1] <= c.max_acres[1] THEN 2 ELSE 0)
    + (IF preferred # <<>>
          /\ IsPreferred(domain, [i \in 1..Len(preferred) |-> Lower(Strip(preferred[i]))])
       THEN 1 ELSE 0)
    - (IF IsNone(ac) THEN 2 ELSE 0)

\* WebSearchCSEAdapter._score_item, in half points
ScoreItem(title, snippet, domain, c, preferred) ==
  LET t == Lower(title)
      s == Lower(snippet)
      st == Lower(c.state)
      co == Lower(c.county_normalized)
      ac == ParseAcres(snippet)
      ppa == ParsePricePerAcre(snippet)
  IN  (IF HasEither(s, t, <<"land", "for", "sale">>) THEN 6 ELSE 0)
    + (IF HasEither(s, t, <<"acre">>) THEN 4 ELSE 0)
    + (IF HasEither(s, t, <<"$">>) THEN 4 ELSE 0)
    + (IF \/ HasPhrase(s, <<"mls">>) \/ HasPhrase(s, <<"apn">>)
          \/ HasPhrase(s, <<"parcel">>) \/ HasPhrase(s, <<"lot", "size">>)
       THEN 3 ELSE 0)
    + (IF st # <<>> /\ HasEither(s, t, st) THEN 2 ELSE 0)
    + (IF co # <<>> /\ HasEither(s, t, co) THEN 3 ELSE 0)
    + (IF ~IsNone(ppa) /\ Truthy(c.max_price_per_acre)
          /\ ppa[1] <= c.max_price_per_acre[1] THEN 6 ELSE 0)
    + (IF ~IsNone(ac) /\ Truthy(c.min_acres) /\ ac[1] >= c.min_acres[1] THEN 2 ELSE 0)
    + (IF ~IsNone(ac) /\ Truthy(c.max_acres) /\ ac[1] <= c.max_acres[1] THEN 2 ELSE 0)
    + (IF preferred # <<>>
          /\ IsPreferred(domain, [i \in 1..Len(preferred) |-> Lower(Strip(preferred[i]))])
       THEN 1 ELSE 0)

\* ------------------------------------------------------------ numeric filter
\* faulty variant of FilterPpa: only the listing's own price per acre counts
FilterPpaOwnOnly(lst) == lst.price_per_acre

\* the price per acre keep_by_criteria compares: the listing's own, else
\* round(price / acres, 2) when price is known and acres is neither None nor 0
FilterPpa(lst) ==
  IF IsNone(lst.price_per_acre) /\ ~IsNone(lst.price) /\ Truthy(lst.acres)
  THEN Some(RoundedRatio(lst.price[1], lst.acres[1]))
  ELSE lst.price_per_acre

\* line 61: the flood-zone fragments that drop a listing
FloodFragments == {<<"A", "E">>, <<"A", " ">>, <<" ", "V", "E">>, <<"V", " ">>}

\* lines 38-41: the acreage is known and outside a configured bound
AcresOut(lst, c) ==
  \/ ~IsNone(c.min_acres) /\ ~IsNone(lst.acres) /\ lst.acres[1] < c.min_acres[1]
  \/ ~IsNone(c.max_acres) /\ ~IsNone(lst.acres) /\ lst.acres[1] > c.max_acres[1]

\* lines 44-50: the price per acre is known or computable, and above the maximum
PpaOut(lst, c) ==
  /\ ~IsNone(c.max_price_per_acre)
  /\ ~IsNone(FilterPpa(lst))
  /\ FilterPpa(lst)[1] > c.max_price_per_acre[1]

\* lines 53-69: an explicit hint of the extras speaks against the listing
HintsOut(lst, c) ==
  \/ c.power_nearby /\ lst.extras.power_hint = Some(FALSE)
  \/ /\ c.exclude_flood_zone
     /\ ~IsNone(lst.extras.flood_zone)
     /\ Strip(lst.extras.flood_zone[1]) # <<>>
     /\ \E k \in FloodFragments : Contains(Upper(lst.extras.flood_zone[1]), k)
  \/ /\ c.zoning_whitelist # <<>>
     /\ ~IsNone(lst.extras.zoning_code)
     /\ lst.extras.zoning_code[1] # <<>>
     /\ \A i \in 1..Len(c.zoning_whitelist) :
          ~Contains(Upper(lst.extras.zoning_code[1]), Upper(c.zoning_whitelist[i]))

\* faulty variant of KeepByCriteria: with a minimum configured, a listing of
\* unknown acreage is dropped
KeepByCriteriaNeedsAcres(lst, c) ==
  /\ ~AcresOut(lst, c)
  /\ ~(~IsNone(c.min_acres) /\ IsNone(lst.acres))
  /\ ~PpaOut(lst, c)
  /\ ~HintsOut(lst, c)

\* faulty variant of KeepByCriteria: with a whitelist configured, a listing
\* without a zoning code is dropped
KeepByCriteriaNeedsZoning(lst, c) ==
  /\ ~AcresOut(lst, c)
  /\ ~PpaOut(lst, c)
  /\ ~HintsOut(lst, c)
  /\ ~(c.zoning_whitelist # <<>> /\ IsNone(lst.extras.zoning_code))

\* SourceAdapter.keep_by_criteria
KeepByCriteria(lst, c) ==
  /\ ~AcresOut(lst, c)
  /\ ~PpaOut(lst, c)
  /\ ~HintsOut(lst, c)

\* ------------------------------------------------------------ configuration
\* RS_SCORE_THRESHOLD default 1.0, in half points
ScoreThreshold == 2

\* RS_EXPLORATION_RATE default 0.1, in tenths
ExploreRate == 1

\* values of random.random(), in tenths
Draws == {0, 5}

\* GOOGLE_API_KEY, GOOGLE_CSE_ID: unset (or empty), or set
Credentials == {NoneVal, <<"id">>}

\* CSE_SOURCES as parsed by __init__: the preferred domains
SourceLists == {<<<<"a">>, <<"b">>>>}

Hosts == {<<"a">>, <<"b">>}

\* the host a budget unit is charged to
Host(url) == Lower(Netloc(url))

\* ------------------------------------------------------------ query planning
RECURSIVE Split(_)
\* str.split(","): the parts between the commas, empty ones included
Split(s) ==
  IF \A i \in 1..Len(s) : s[i] # ","
  THEN <<s>>
  ELSE LET k == CHOOSE i \in 1..Len(s) :
                  s[i] = "," /\ \A j \in 1..(i - 1) : s[j] # ","
       IN  <<SubSeq(s, 1, k - 1)>> \o Split(SubSeq(s, k + 1, Len(s)))

\* line 56: [s.strip() for s in CSE_SOURCES.split(",") if s.strip()]
ParseSources(env) ==
  LET parts == Split(env)
  IN  SelectSeq([i \in 1..Len(parts) |-> Strip(parts[i])], LAMBDA d : d # <<>>)

Quoted(words) == <<"'">> \o words \o <<"'">>

\* faulty variant of Queries: the site restriction is left out of the queries
QueriesNoSite(c, sources) ==
  LET state == Strip(c.state)
      county == Strip(c.county_normalized)
      locs == IF county # <<>>
              THEN Quoted(county \o <<"County", ",">> \o state)
                     \o Quoted(county \o <<",">> \o state)
              ELSE Quoted(state)
      base == locs \o Quoted(<<"land", "for", "sale">>) \o <<"acre", "OR", "acres">>
  IN  IF sources # <<>> THEN [i \in 1..Len(sources) |-> base] ELSE <<base>>

\* faulty variant of Queries: the broad query is added to the site queries
QueriesPlusBroad(c, sources) ==
  LET state == Strip(c.state)
      county == Strip(c.county_normalized)
      locs == IF county # <<>>
              THEN Quoted(county \o <<"County", ",">> \o state)
                     \o Quoted(county \o <<",">> \o state)
              ELSE Quoted(state)
      base == locs \o Quoted(<<"land", "for", "sale">>) \o <<"acre", "OR", "acres">>
  IN  [i \in 1..Len(sources) |-> <<"site:">> \o sources[i] \o base] \o <<base>>

\* WebSearchCSEAdapter._queries
Queries(c, sources) ==
  LET state == Strip(c.state)
      county == Strip(c.county_normalized)
      locs == IF county # <<>>
              THEN Quoted(county \o <<"County", ",">> \o state)
                     \o Quoted(county \o <<",">> \o state)
              ELSE Quoted(state)
      base == locs \o Quoted(<<"land", "for", "sale">>) \o <<"acre", "OR", "acres">>
  IN  IF sources # <<>>
      THEN [i \in 1..Len(sources) |-> <<"site:">> \o sources[i] \o base]
      ELSE <<base>>

\* ------------------------------------------------------------ budget ledger
\* CrawlBudget(): the full global cap and, for every host, the full host cap
NewBudget(globalCap, hostCap) ==
  [total_left |-> globalCap, per_host_left |-> [h \in Hosts |-> hostCap],
   exhausted |-> FALSE]

\* faulty variant of TryConsume: only the host's counter is checked
TryConsumeHostOnly(b, url) ==
  IF b.per_host_left[Host(url)] <= 0
  THEN [ok |-> FALSE,
        budget |-> [b EXCEPT !.exhausted = b.exhausted \/ b.total_left <= 0]]
  ELSE [ok |-> TRUE,
        budget |-> [b EXCEPT !.total_left = b.total_left - 1,
                             !.per_host_left[Host(url)] = b.per_host_left[Host(url)] - 1]]

\* faulty variant of TryConsume: a success charges every host
TryConsumeAllHosts(b, url) ==
  IF b.total_left <= 0 \/ b.per_host_left[Host(url)] <= 0
  THEN [ok |-> FALSE,
        budget |-> [b EXCEPT !.exhausted = b.exhausted \/ b.total_left <= 0]]
  ELSE [ok |-> TRUE,
        budget |-> [b EXCEPT !.total_left = b.total_left - 1,
                             !.per_host_left = [h \in Hosts |-> b.per_host_left[h] - 1]]]

\* CrawlBudget.consume(url): the result and the ledger after the call
TryConsume(b, url) ==
  IF b.total_left <= 0 \/ b.per_host_left[Host(url)] <= 0
  THEN [ok |-> FALSE,
        budget |-> [b EXCEPT !.exhausted = b.exhausted \/ b.total_left <= 0]]
  ELSE [ok |-> TRUE,
        budget |-> [b EXCEPT !.total_left = b.total_left - 1,
                             !.per_host_left[Host(url)] = b.per_host_left[Host(url)] - 1]]

\* ------------------------------------------------------------ discovery results
LandTitle ==
  <<"40", "acres", "land", "for", "sale", "Tippecanoe", "County", "Indiana", "$180,000">>

CseItems ==
  {[link |-> A1, formattedUrl |-> NoneVal, title |-> LandTitle, snippet |-> <<>>],
   [link |-> A1U, formattedUrl |-> NoneVal, title |-> <<"LAND">>, snippet |-> <<>>],
   [link |-> A1Q, formattedUrl |-> NoneVal, title |-> <<"Acres">>,
    snippet |-> <<"40", "acres", "$200,000">>],
   [link |-> A1F, formattedUrl |-> NoneVal, title |-> <<"Land">>, snippet |-> <<>>],
   [link |-> A1P, formattedUrl |-> NoneVal, title |-> <<"lot">>, snippet |-> <<" ">>],
   [link |-> NoneVal, formattedUrl |-> B1, title |-> <<"Parcel">>,
    snippet |-> <<"2", "acres", " ", "$4,500/acre">>],
   [link |-> Blank, formattedUrl |-> NoneVal, title |-> <<>>, snippet |-> <<>>]}

\* a small index whose links are all of host a but one, for frontiers of more
\* than two candidates
FrontierItems ==
  {[link |-> A1, formattedUrl |-> NoneVal, title |-> LandTitle, snippet |-> <<>>],
   [link |-> A1Q, formattedUrl |-> NoneVal, title |-> <<"Acres">>,
    snippet |-> <<"40", "acres", "$200,000">>],
   [link |-> A1F, formattedUrl |-> NoneVal, title |-> <<"Land">>, snippet |-> <<>>],
   [link |-> B1, formattedUrl |-> NoneVal, title |-> <<"acres">>, snippet |-> <<>>]}

\* the non-empty lists of at most n items of `index` the API can answer with
ItemLists(index, n) == UNION {[1..k -> index] : k \in 1..n}

\* it.get("link") or it.get("formattedUrl")
ItemUrl(it) == IF it.link # <<>> THEN it.link ELSE it.formattedUrl

\* ------------------------------------------------------------ scoring a result set
\* the frontier entry of one raw item
Scored(it, u, c, preferred) ==
  [s |-> ScoreItem(SquishSpaces(it.title), SquishSpaces(it.snippet),
                   Lower(Netloc(u)), c, preferred),
   it |-> it]

RECURSIVE ScoreItemsForgetful(_, _, _, _)
\* faulty variant of ScoreItems: seen_urls is read but never added to
ScoreItemsForgetful(items, acc, c, preferred) ==
  IF items = <<>> THEN acc
  ELSE LET it == Head(items)
           url == ItemUrl(it)
           u == Strip(url)
       IN  IF url = <<>> \/ u = <<>> \/ SeenKey(u) \in acc.seen
           THEN ScoreItemsForgetful(Tail(items), acc, c, preferred)
           ELSE ScoreItemsForgetful(
                  Tail(items),
                  [scored |-> Append(acc.scored, Scored(it, u, c, preferred)),
                   seen |-> acc.seen],
                  c, preferred)

RECURSIVE ScoreItems(_, _, _, _)
\* lines 181-195: the scored frontier of `items` in discovery order, and the
\* seen set after it, starting from `acc` = [scored, seen]
ScoreItems(items, acc, c, preferred) ==
  IF items = <<>> THEN acc
  ELSE LET it == Head(items)
           url == ItemUrl(it)
           u == Strip(url)
       IN  IF url = <<>> \/ u = <<>> \/ SeenKey(u) \in acc.seen
           THEN ScoreItems(Tail(items), acc, c, preferred)
           ELSE ScoreItems(
                  Tail(items),
                  [scored |-> Append(acc.scored, Scored(it, u, c, preferred)),
                   seen |-> acc.seen \cup {SeenKey(u)}],
                  c, preferred)

RECURSIVE InsertDesc(_, _)
\* e goes behind every element whose score is not lower
InsertDesc(sorted, e) ==
  IF sorted = <<>> THEN <<e>>
  ELSE IF Head(sorted).s >= e.s THEN <<Head(sorted)>> \o InsertDesc(Tail(sorted), e)
  ELSE <<e>> \o sorted

RECURSIVE InsertBeforeTies(_, _)
\* e goes in front of the elements of its own score
InsertBeforeTies(sorted, e) ==
  IF sorted = <<>> THEN <<e>>
  ELSE IF Head(sorted).s > e.s
       THEN <<Head(sorted)>> \o InsertBeforeTies(Tail(sorted), e)
  ELSE <<e>> \o sorted

RECURSIVE SortDescUnstable(_)
\* faulty variant of SortDesc: candidates of equal score come out in reverse
\* discovery order
SortDescUnstable(scored) ==
  IF scored = <<>> THEN <<>>
  ELSE InsertBeforeTies(SortDescUnstable(SubSeq(scored, 1, Len(scored) - 1)),
                        scored[Len(scored)])

RECURSIVE SortDesc(_)
\* scored.sort(key=lambda x: x[0], reverse=True): stable, highest score first
SortDesc(scored) ==
  IF scored = <<>> THEN <<>>
  ELSE InsertDesc(SortDesc(SubSeq(scored, 1, Len(scored) - 1)), scored[Len(scored)])

\* ------------------------------------------------------------ link verifier
\* linkcheck.verify_url(url): the VerificationResult values a fetch can give
VerifyOutcomes ==
  {[ok |-> FALSE, reason |-> "dead", status |-> 404, canonical_url |-> NoneVal,
    price |-> NoneVal, acres |-> NoneVal, price_per_acre |-> NoneVal,
    content_type |-> "text/html"],
   [ok |-> FALSE, reason |-> "network-error", status |-> 0, canonical_url |-> NoneVal,
    price |-> NoneVal, acres |-> NoneVal, price_per_acre |-> NoneVal,
    content_type |-> ""],
   [ok |-> FALSE, reason |-> "off-topic", status |-> 200, canonical_url |-> NoneVal,
    price |-> NoneVal, acres |-> NoneVal, price_per_acre |-> NoneVal,
    content_type |-> "text/html"],
   [ok |-> TRUE, reason |-> "", status |-> 200, canonical_url |-> NoneVal,
    price |-> NoneVal, acres |-> NoneVal, price_per_acre |-> NoneVal,
    content_type |-> "text/html"],
   [ok |-> TRUE, reason |-> "", status |-> 200, canonical_url |-> NoneVal,
    price |-> NoneVal, acres |-> Some(2), price_per_acre |-> NoneVal,
    content_type |-> "text/html"]}

\* a page that states the acreage 40 of LandTitle, with or without its price
LandPages ==
  {[ok |-> TRUE, reason |-> "", status |-> 200, canonical_url |-> NoneVal,
    price |-> p, acres |-> Some(40), price_per_acre |-> NoneVal,
    content_type |-> "text/html"] : p \in {NoneVal, Some(180000)}}

\* a page on which the verifier reads the price 0, and a page that names
\* A1 as its canonical URL
HintPages ==
  {[ok |-> TRUE, reason |-> "", status |-> 200, canonical_url |-> NoneVal,
    price |-> Some(0), acres |-> NoneVal, price_per_acre |-> NoneVal,
    content_type |-> "text/html"],
   [ok |-> TRUE, reason |-> "", status |-> 200, canonical_url |-> A1,
    price |-> NoneVal, acres |-> NoneVal, price_per_acre |-> NoneVal,
    content_type |-> "text/html"]}

\* faulty variant of BuildListing: no price_per_acre(p, ac) fallback
BuildListingNoRatio(s, it, url, ck, q) ==
  LET title == SquishSpaces(it.title)
      snippet == SquishSpaces(it.snippet)
      p == OrElse(ck.price, ParsePrice(snippet))
      ac == OrElse(ck.acres, ParseAcres(snippet))
      ppa == OrElse(ck.price_per_acre, ParsePricePerAcre(snippet))
  IN  [source |-> "websearch_cse",
       url |-> IF ck.canonical_url # <<>> THEN ck.canonical_url ELSE url,
       title |-> title, price |-> p, acres |-> ac, price_per_acre |-> ppa,
       extras |-> [query |-> q, ctype |-> ck.content_type, score |-> s,
                   power_hint |-> NoneVal, flood_zone |-> NoneVal,
                   zoning_code |-> NoneVal]]

\* lines 223-238: the Listing built from a ranked item and its verification
BuildListing(s, it, url, ck, q) ==
  LET title == SquishSpaces(it.title)
      snippet == SquishSpaces(it.snippet)
      p == OrElse(ck.price, ParsePrice(snippet))
      ac == OrElse(ck.acres, ParseAcres(snippet))
      ppa == OrElse(OrElse(ck.price_per_acre, ParsePricePerAcre(snippet)),
                    PricePerAcre(p, ac))
  IN  [source |-> "websearch_cse",
       url |-> IF ck.canonical_url # <<>> THEN ck.canonical_url ELSE url,
       title |-> title, price |-> p, acres |-> ac, price_per_acre |-> ppa,
       extras |-> [query |-> q, ctype |-> ck.content_type, score |-> s,
                   power_hint |-> NoneVal, flood_zone |-> NoneVal,
                   zoning_code |-> NoneVal]]

\* ------------------------------------------------------------ state
VARIABLES
  cfg,        \* the run's configuration and criteria
  pc,         \* where search() stands
  qi,         \* index of the query the for loop is at
  items,      \* the raw items of the current query
  scored,     \* the ranked frontier of the current query
  ci,         \* index of the ranked candidate the inner loop is at
  budget,     \* the run's CrawlBudget
  seen_urls,  \* the run's seen set
  emitted,    \* the Listings yielded so far
  fetched,    \* how many raw items the API has returned in the run
  scoreLog,   \* how often each normalized URL was scored in the run
  verifyLog,  \* per URL, the ok flags of the verify_url calls of the run
  draw,       \* the exploration draw of the current candidate, None if not drawn
  reserved,   \* the URL a budget unit was consumed for and not yet verified
  callers,    \* concurrent consumers of one ledger, or of the rate limiter
  limiter,    \* the process-wide rate limiter: clock, last turn and lock per host
  cse,        \* the web: the items the API can answer with, how many in a run,
              \* and the results verify_url can give
  cse_calls,  \* how many requests _call_cse has sent in the run
  resp,       \* what the last request of _call_cse came back with
  disabled_logs, \* how often "adapter disabled" was printed
  sleeps,     \* how often search() has slept for sleep_sec in the run
  area,       \* where a call of ZillowSeleniumAdapter._run_one_area stands
  probe,      \* the arguments of a single call of one method
  result      \* what that call returned, None before it returns

vars ==
  <<cfg, pc, qi, items, scored, ci, budget, seen_urls, emitted, fetched, scoreLog,
    verifyLog, draw, reserved, callers, cse, cse_calls, resp, disabled_logs, probe,
    result, limiter, sleeps, area>>

NormLinks == {NormUrl(l) : l \in Links}

StrippedLinks == {Strip(l) : l \in Links}

QueryList == Queries(cfg.criteria, cfg.sources)

\* the candidate the inner loop stands at, and its stripped URL (lines 200-206)
Cand == scored[ci]

CandUrl == Strip(ItemUrl(Cand.it))

\* a host cap above the global cap never binds
ConfigsAt(rates) ==
  {c \in [key : Credentials, cx : Credentials, sources : SourceLists,
          criteria : {CritIndiana}, explore_rate : rates,
          global_cap : 1..MaxGlobalCap, host_cap : 1..MaxHostCap] :
     c.host_cap <= c.global_cap}

\* the configurations with the default exploration rate
Configs == ConfigsAt({ExploreRate})

\* line 65: self.key and self.cx
Enabled(c) == c.key # <<>> /\ c.cx # <<>>

NoProbe == [fn |-> "none"]

\* no call of _run_one_area is under way
NoArea == [at |-> "none"]

\* the runs of one process
Runs == {1, 2}

\* a process in which no request has been paced yet
NoLimiter ==
  [now |-> 0, run |-> 1, last |-> [h \in Hosts |-> NoneVal],
   lock |-> [h \in Hosts |-> NoneVal], turns |-> [h \in Hosts |-> <<>>]]

\* the state search() is called in, configured as one of `configs`, against
\* a provider that answers from `index` with at most `quota` items in the
\* run, and pages that verify as one of `pages`
InitRun(configs, index, quota, pages) ==
  /\ cfg \in configs
  /\ cse = [index |-> index, quota |-> quota, pages |-> pages]
  /\ cse_calls = 0
  /\ resp = "none"
  /\ disabled_logs = 0
  /\ sleeps = 0
  /\ area = NoArea
  /\ probe = NoProbe
  /\ result = NoneVal
  /\ pc = "start"
  /\ qi = 1
  /\ items = <<>>
  /\ scored = <<>>
  /\ ci = 1
  /\ budget = NewBudget(cfg.global_cap, cfg.host_cap)
  /\ seen_urls = {}
  /\ emitted = <<>>
  /\ fetched = 0
  /\ scoreLog = [u \in NormLinks |-> 0]
  /\ verifyLog = [u \in StrippedLinks |-> <<>>]
  /\ draw = NoneVal
  /\ reserved = NoneVal
  /\ callers = <<>>
  /\ limiter = NoLimiter

Init == InitRun(Configs, CseItems, MaxRaw, VerifyOutcomes)

\* ------------------------------------------------------------ search()
Frame == UNCHANGED <<cfg, callers, cse, probe, result, limiter, area>>

\* a step in which search() does not sleep
Awake == UNCHANGED sleeps

\* a step that sends no request and prints no "disabled" line
Quiet == UNCHANGED <<cse_calls, resp, disabled_logs>>

\* faulty variant of Disabled: the missing credential is logged and the run
\* goes on
DisabledRunsAnyway ==
  /\ pc = "start"
  /\ ~Enabled(cfg)
  /\ disabled_logs' = disabled_logs + 1
  /\ budget' = NewBudget(cfg.global_cap, cfg.host_cap)
  /\ seen_urls' = {}
  /\ qi' = 1
  /\ pc' = "query"
  /\ UNCHANGED <<items, scored, ci, emitted, fetched, scoreLog, verifyLog, draw,
                 reserved, cse_calls, resp>>
  /\ Frame
  /\ Awake

\* lines 163-164: _enabled() is false, search returns at once
Disabled ==
  /\ pc = "start"
  /\ ~Enabled(cfg)
  /\ disabled_logs' = disabled_logs + 1
  /\ pc' = "done"
  /\ UNCHANGED <<qi, items, scored, ci, budget, seen_urls, emitted, fetched,
                 scoreLog, verifyLog, draw, reserved, cse_calls, resp>>
  /\ Frame
  /\ Awake

\* faulty variant of StartRun: the ledger and the seen set outlive the run
StartRunKeepsLedger ==
  /\ pc = "start"
  /\ Enabled(cfg)
  /\ budget' = IF limiter.run = 1 THEN NewBudget(cfg.global_cap, cfg.host_cap)
                ELSE budget
  /\ seen_urls' = IF limiter.run = 1 THEN {} ELSE seen_urls
  /\ qi' = 1
  /\ pc' = "query"
  /\ UNCHANGED <<items, scored, ci, emitted, fetched, scoreLog, verifyLog, draw,
                 reserved>>
  /\ Frame
  /\ Awake
  /\ Quiet

\* lines 166-167: a fresh CrawlBudget and an empty seen set
StartRun ==
  /\ pc = "start"
  /\ Enabled(cfg)
  /\ budget' = NewBudget(cfg.global_cap, cfg.host_cap)
  /\ seen_urls' = {}
  /\ qi' = 1
  /\ pc' = "query"
  /\ UNCHANGED <<items, scored, ci, emitted, fetched, scoreLog, verifyLog, draw,
                 reserved>>
  /\ Frame
  /\ Awake
  /\ Quiet

\* line 169: the for loop has no query left
QueriesDone ==
  /\ pc = "query"
  /\ qi > Len(QueryList)
  /\ pc' = "done"
  /\ UNCHANGED <<qi, items, scored, ci, budget, seen_urls, emitted, fetched,
                 scoreLog, verifyLog, draw, reserved>>
  /\ Frame
  /\ Awake
  /\ Quiet

\* faulty variant of StopExhausted: the flag is not looked at and the query
\* is sent
StopExhaustedFetches ==
  /\ pc = "query"
  /\ qi <= Len(QueryList)
  /\ budget.exhausted
  /\ cse_calls' = cse_calls + 1
  /\ resp' = "no-items"
  /\ items' = <<>>
  /\ scored' = <<>>
  /\ ci' = 1
  /\ draw' = NoneVal
  /\ qi' = qi + 1
  /\ pc' = "query"
  /\ UNCHANGED <<budget, seen_urls, emitted, fetched, scoreLog, verifyLog, reserved,
                 disabled_logs>>
  /\ Frame
  /\ Awake

\* lines 170-172: the ledger is exhausted, break
StopExhausted ==
  /\ pc = "query"
  /\ qi <= Len(QueryList)
  /\ budget.exhausted
  /\ pc' = "done"
  /\ UNCHANGED <<qi, items, scored, ci, budget, seen_urls, emitted, fetched,
                 scoreLog, verifyLog, draw, reserved>>
  /\ Frame
  /\ Awake
  /\ Quiet

\* faulty variant of LeaveQuery: the next query is taken without a sleep
LeaveQueryNoSleep ==
  /\ sleeps' = sleeps
  /\ items' = <<>>
  /\ scored' = <<>>
  /\ ci' = 1
  /\ draw' = NoneVal
  /\ qi' = qi + 1
  /\ pc' = "query"

\* lines 177 and 243: time.sleep(self.sleep_sec), then the for loop takes the
\* next query; the locals of the finished iteration are dead
LeaveQuery ==
  /\ sleeps' = sleeps + 1
  /\ items' = <<>>
  /\ scored' = <<>>
  /\ ci' = 1
  /\ draw' = NoneVal
  /\ qi' = qi + 1
  /\ pc' = "query"

\* the answers to which _call_cse returns []: requests.get raised a
\* RequestException (lines 102-104), the status is not 200 (lines 105-107), or
\* the body is an object without items (line 108)
EmptyResponses == {"request-error", "http-status", "no-items"}

\* the answers on which line 108 or the loop of line 182 raises: a body that
\* is no JSON, a JSON value that is no object, items that are no list of objects
MalformedResponses == {"not-json", "not-an-object", "items-not-a-list"}

\* one request of _call_cse (line 101) and what came back
Request(kind) ==
  /\ cse_calls' = cse_calls + 1
  /\ resp' = kind
  /\ UNCHANGED disabled_logs

\* faulty variant of FetchNothing: a request error or a bad status is raised
\* to the caller of search()
FetchNothingRaises ==
  /\ pc = "query"
  /\ qi <= Len(QueryList)
  /\ ~budget.exhausted
  /\ \E kind \in EmptyResponses : Request(kind)
  /\ pc' = "raised"
  /\ UNCHANGED <<qi, items, scored, ci, budget, seen_urls, emitted, fetched,
                 scoreLog, verifyLog, draw, reserved>>
  /\ Frame
  /\ Awake

\* lines 175-178: _call_cse gives no item; sleep and go to the next query
FetchNothing ==
  /\ pc = "query"
  /\ qi <= Len(QueryList)
  /\ ~budget.exhausted
  /\ \E kind \in EmptyResponses : Request(kind)
  /\ LeaveQuery
  /\ UNCHANGED <<budget, seen_urls, emitted, fetched, scoreLog, verifyLog, reserved>>
  /\ Frame

\* line 108 is outside the try of lines 100-104: on a body that is no JSON
\* r.json() raises, on a JSON value that is no object .get does, and items
\* that are no list of objects make lines 182-183 raise; nothing in search()
\* catches it
FetchRaises ==
  /\ pc = "query"
  /\ qi <= Len(QueryList)
  /\ ~budget.exhausted
  /\ \E kind \in MalformedResponses : Request(kind)
  /\ pc' = "raised"
  /\ UNCHANGED <<qi, items, scored, ci, budget, seen_urls, emitted, fetched,
                 scoreLog, verifyLog, draw, reserved>>
  /\ Frame
  /\ Awake

\* lines 175-198: _call_cse gives items; score the unseen ones and rank them
FetchAndRank ==
  /\ pc = "query"
  /\ qi <= Len(QueryList)
  /\ ~budget.exhausted
  /\ Request("items")
  /\ \E its \in ItemLists(cse.index, cse.quota - fetched) :
       LET r == ScoreItems(its, [scored |-> <<>>, seen |-> seen_urls],
                           cfg.criteria, cfg.sources)
       IN  /\ items' = its
           /\ fetched' = fetched + Len(its)
           /\ scored' = SortDesc(r.scored)
           /\ seen_urls' = r.seen
           /\ scoreLog' =
                [u \in NormLinks |->
                   scoreLog[u]
                     + Cardinality({i \in 1..Len(r.scored) :
                                      NormUrl(ItemUrl(r.scored[i].it)) = u})]
  /\ ci' = 1
  /\ pc' = "rank"
  /\ UNCHANGED <<qi, budget, emitted, verifyLog, draw, reserved>>
  /\ Frame
  /\ Awake

\* lines 200 and 243: the frontier is used up; sleep and go to the next query
CandidatesDone ==
  /\ pc = "rank"
  /\ ci > Len(scored)
  /\ LeaveQuery
  /\ UNCHANGED <<budget, seen_urls, emitted, fetched, scoreLog, verifyLog, reserved>>
  /\ Frame
  /\ Quiet

\* line 209: random.random() is called only when s < threshold
GateDraws(s) == IF s < ScoreThreshold THEN {Some(d) : d \in Draws} ELSE {NoneVal}

\* line 209: s < threshold and random.random() > explore_rate
GateDrops(s, dr) == s < ScoreThreshold /\ dr # <<>> /\ dr[1] > cfg.explore_rate

\* lines 209-210: the gate drops the candidate
GateDrop ==
  /\ pc = "rank"
  /\ ci <= Len(scored)
  /\ \E dr \in GateDraws(Cand.s) : GateDrops(Cand.s, dr) /\ draw' = dr
  /\ ci' = ci + 1
  /\ UNCHANGED <<pc, qi, items, scored, budget, seen_urls, emitted, fetched,
                 scoreLog, verifyLog, reserved>>
  /\ Frame
  /\ Awake
  /\ Quiet

\* lines 209-213: the candidate passes the gate and gets a budget unit
ConsumeOk ==
  /\ pc = "rank"
  /\ ci <= Len(scored)
  /\ \E dr \in GateDraws(Cand.s) : ~GateDrops(Cand.s, dr) /\ draw' = dr
  /\ TryConsume(budget, CandUrl).ok
  /\ budget' = TryConsume(budget, CandUrl).budget
  /\ reserved' = Some(CandUrl)
  /\ pc' = "verify"
  /\ UNCHANGED <<qi, items, scored, ci, seen_urls, emitted, fetched, scoreLog,
                 verifyLog>>
  /\ Frame
  /\ Awake
  /\ Quiet

\* faulty variant of ConsumeFail: the failed consume is ignored and the
\* candidate goes on to verification
ConsumeFailProceeds ==
  /\ pc = "rank"
  /\ ci <= Len(scored)
  /\ \E dr \in GateDraws(Cand.s) : ~GateDrops(Cand.s, dr) /\ draw' = dr
  /\ ~TryConsume(budget, CandUrl).ok
  /\ budget' = TryConsume(budget, CandUrl).budget
  /\ pc' = "verify"
  /\ UNCHANGED <<qi, items, scored, ci, seen_urls, emitted, fetched, scoreLog,
                 verifyLog, reserved>>
  /\ Frame
  /\ Awake
  /\ Quiet

\* faulty variant of ConsumeFail: `continue` in place of `break`, the next
\* ranked candidate is tried
ConsumeFailSkips ==
  /\ pc = "rank"
  /\ ci <= Len(scored)
  /\ \E dr \in GateDraws(Cand.s) : ~GateDrops(Cand.s, dr) /\ draw' = dr
  /\ ~TryConsume(budget, CandUrl).ok
  /\ budget' = TryConsume(budget, CandUrl).budget
  /\ ci' = ci + 1
  /\ UNCHANGED <<pc, qi, items, scored, seen_urls, emitted, fetched, scoreLog,
                 verifyLog, reserved>>
  /\ Frame
  /\ Awake
  /\ Quiet

\* lines 213-215 and 243: consume fails; break, sleep, next query
ConsumeFail ==
  /\ pc = "rank"
  /\ ci <= Len(scored)
  /\ \E dr \in GateDraws(Cand.s) : ~GateDrops(Cand.s, dr)
  /\ ~TryConsume(budget, CandUrl).ok
  /\ budget' = TryConsume(budget, CandUrl).budget
  /\ LeaveQuery
  /\ UNCHANGED <<seen_urls, emitted, fetched, scoreLog, verifyLog, reserved>>
  /\ Frame
  /\ Quiet

\* what the run has yielded: the Listing, with the candidate link, the
\* exploration draw and the verification it came from
Yielded(lst, ck) == [link |-> CandUrl, draw |-> draw, lst |-> lst, ck |-> ck]

\* the bookkeeping of one verify_url(url) call
Verified(url, ok) ==
  /\ verifyLog' = [verifyLog EXCEPT ![url] = Append(@, ok)]
  /\ reserved' = NoneVal

\* faulty variant of VerifyNotOk: the unit of a failed verification is given back
VerifyNotOkRefund ==
  /\ pc = "verify"
  /\ \E ck \in cse.pages : ~ck.ok
  /\ Verified(CandUrl, FALSE)
  /\ budget' = [budget EXCEPT !.total_left = @ + 1,
                              !.per_host_left[Host(CandUrl)] = @ + 1]
  /\ ci' = ci + 1
  /\ pc' = "rank"
  /\ UNCHANGED <<qi, items, scored, seen_urls, emitted, fetched, scoreLog, draw>>
  /\ Frame
  /\ Awake
  /\ Quiet

\* faulty variant of VerifyNotOk: a failed verification ends the query
VerifyNotOkBreaks ==
  /\ pc = "verify"
  /\ \E ck \in cse.pages : ~ck.ok
  /\ Verified(CandUrl, FALSE)
  /\ LeaveQuery
  /\ UNCHANGED <<budget, seen_urls, emitted, fetched, scoreLog>>
  /\ Frame
  /\ Quiet

\* lines 218-221: verification is not ok; drop, next candidate
VerifyNotOk ==
  /\ pc = "verify"
  /\ \E ck \in cse.pages : ~ck.ok
  /\ Verified(CandUrl, FALSE)
  /\ ci' = ci + 1
  /\ pc' = "rank"
  /\ UNCHANGED <<qi, items, scored, budget, seen_urls, emitted, fetched, scoreLog,
                 draw>>
  /\ Frame
  /\ Awake
  /\ Quiet

\* faulty variant of VerifyOkFiltered: the Listing is yielded unfiltered
VerifyOkFilteredYields ==
  /\ pc = "verify"
  /\ \E ck \in cse.pages :
       LET lst == BuildListing(Cand.s, Cand.it, CandUrl, ck, QueryList[qi])
       IN  /\ ck.ok
           /\ ~KeepByCriteria(lst, cfg.criteria)
           /\ emitted' = Append(emitted, Yielded(lst, ck))
  /\ Verified(CandUrl, TRUE)
  /\ pc' = "yield"
  /\ UNCHANGED <<qi, items, scored, ci, budget, seen_urls, fetched, scoreLog, draw>>
  /\ Frame
  /\ Awake
  /\ Quiet

\* lines 218-240: verification is ok but keep_by_criteria drops the Listing
VerifyOkFiltered ==
  /\ pc = "verify"
  /\ \E ck \in cse.pages :
       /\ ck.ok
       /\ ~KeepByCriteria(BuildListing(Cand.s, Cand.it, CandUrl, ck, QueryList[qi]),
                          cfg.criteria)
  /\ Verified(CandUrl, TRUE)
  /\ ci' = ci + 1
  /\ pc' = "rank"
  /\ UNCHANGED <<qi, items, scored, budget, seen_urls, emitted, fetched, scoreLog,
                 draw>>
  /\ Frame
  /\ Awake
  /\ Quiet

\* lines 218-241: verification is ok and the Listing is kept: yield it
VerifyOkYield ==
  /\ pc = "verify"
  /\ \E ck \in cse.pages :
       LET lst == BuildListing(Cand.s, Cand.it, CandUrl, ck, QueryList[qi])
       IN  /\ ck.ok
           /\ KeepByCriteria(lst, cfg.criteria)
           /\ emitted' = Append(emitted, Yielded(lst, ck))
  /\ Verified(CandUrl, TRUE)
  /\ pc' = "yield"
  /\ UNCHANGED <<qi, items, scored, ci, budget, seen_urls, fetched, scoreLog, draw>>
  /\ Frame
  /\ Awake
  /\ Quiet

\* the consumer asks for the next Listing: the generator goes on after line 241
Resume ==
  /\ pc = "yield"
  /\ ci' = ci + 1
  /\ pc' = "rank"
  /\ UNCHANGED <<qi, items, scored, budget, seen_urls, emitted, fetched, scoreLog,
                 verifyLog, draw, reserved>>
  /\ Frame
  /\ Awake
  /\ Quiet

\* the consumer closes the generator while it is suspended at the yield
Abort ==
  /\ pc = "yield"
  /\ pc' = "aborted"
  /\ UNCHANGED <<qi, items, scored, ci, budget, seen_urls, emitted, fetched,
                 scoreLog, verifyLog, draw, reserved>>
  /\ Frame
  /\ Awake
  /\ Quiet

Next ==
  \/ Disabled
  \/ StartRun
  \/ QueriesDone
  \/ StopExhausted
  \/ FetchNothing
  \/ FetchRaises
  \/ FetchAndRank
  \/ CandidatesDone
  \/ GateDrop
  \/ ConsumeOk
  \/ ConsumeFail
  \/ VerifyNotOk
  \/ VerifyOkFiltered
  \/ VerifyOkYield
  \/ Resume
  \/ Abort

Spec == Init /\ [][Next]_vars

\* ------------------------------------------------------------ longer frontiers
InitFrontier == InitRun(Configs, FrontierItems, MaxFrontier, VerifyOutcomes)

SpecFrontier == InitFrontier /\ [][Next]_vars

\* ------------------------------------------------------------ verified hints
\* runs in which a page can state the acreage, and the price, of LandTitle
InitLand == InitRun(Configs, FrontierItems, MaxRaw, VerifyOutcomes \cup LandPages)

SpecLand == InitLand /\ [][Next]_vars

\* runs in which a page can state the price 0, or a canonical URL
InitHints == InitRun(Configs, FrontierItems, MaxRaw, VerifyOutcomes \cup HintPages)

SpecHints == InitHints /\ [][Next]_vars

\* ------------------------------------------------------------ successive runs
\* how a run that is over ended
HowEnded ==
  IF pc = "aborted" THEN "aborted"
  ELSE IF budget.exhausted THEN "exhausted"
  ELSE "ended"

\* search() is called again in the same process once the earlier run is over
\* (exhausted, aborted by the consumer, or ended otherwise): the new
\* generator has run no line yet, and the objects of the earlier run are
\* still what they were
SearchAgain ==
  /\ pc \in {"done", "aborted", "raised"}
  /\ limiter.run + 1 \in Runs
  /\ limiter' = [limiter EXCEPT !.run = @ + 1]
  /\ result' = Some(HowEnded)
  /\ pc' = "start"
  /\ qi' = 1
  /\ items' = <<>>
  /\ scored' = <<>>
  /\ ci' = 1
  /\ emitted' = <<>>
  /\ fetched' = 0
  /\ scoreLog' = [u \in NormLinks |-> 0]
  /\ verifyLog' = [u \in StrippedLinks |-> <<>>]
  /\ draw' = NoneVal
  /\ reserved' = NoneVal
  /\ cse_calls' = 0
  /\ resp' = "none"
  /\ disabled_logs' = 0
  /\ sleeps' = 0
  /\ UNCHANGED <<cfg, budget, seen_urls, callers, cse, probe, area>>

\* runs with a global cap of one unit, so that a run is soon exhausted
InitRuns ==
  InitRun({c \in Configs : c.global_cap = 1}, FrontierItems, MaxRaw, VerifyOutcomes)

NextRuns ==
  \/ Next
  \/ SearchAgain

SpecRuns == InitRuns /\ [][NextRuns]_vars

\* ------------------------------------------------------------ single calls
\* the characters of a CSE_SOURCES value
EnvTokens == {"a", "b", ",", " "}

EnvStrings(n) == UNION {[1..k -> EnvTokens] : k \in 0..n}

\* criteria with and without a state, with no county, a blank one, or one
PlanCriteria ==
  {[CritIndiana EXCEPT !.state = st, !.county_normalized = co] :
     st \in {<<>>, <<"Indiana">>}, co \in {<<>>, <<" ">>, <<"Tippecanoe">>}}

ScoreCriteria ==
  {CritIndiana,
   [CritIndiana EXCEPT !.max_acres = Some(10)],
   [CritIndiana EXCEPT !.state = <<>>, !.county_normalized = <<>>,
                       !.min_acres = NoneVal]}

\* titles and snippets as squish_spaces leaves them
ProbeTitles ==
  {<<>>, LandTitle, <<"Parcel">>, <<"LAND", "for", "sale">>, <<"mls">>}

ProbeSnippets ==
  {<<>>, <<"40", "acres", "$200,000">>, <<"2", "acres", "$4,500/acre">>,
   <<"parcels">>, <<"lot", "size", "Indiana">>, <<"$4,500/acre">>}

\* criteria with each bound and each optional filter configured or not
FilterCriteria ==
  {[CritIndiana EXCEPT !.min_acres = lo, !.max_acres = hi,
                       !.max_price_per_acre = mx, !.power_nearby = pw,
                       !.exclude_flood_zone = fl, !.zoning_whitelist = wl] :
     lo \in {NoneVal, Some(5)}, hi \in {NoneVal, Some(10)},
     mx \in {NoneVal, Some(800000)}, pw \in BOOLEAN, fl \in BOOLEAN,
     wl \in {<<>>, <<<<"a", "g">>>>}}

\* Listings with each hint known or not; zones and codes spelled letter by letter
ProbeListings ==
  {[source |-> "probe", url |-> A1, title |-> <<>>, price |-> p, acres |-> ac,
    price_per_acre |-> ppa,
    extras |-> [query |-> <<>>, ctype |-> "", score |-> 0, power_hint |-> ph,
                flood_zone |-> fz, zoning_code |-> z]] :
     p \in {NoneVal, Some(200000)},
     ac \in {NoneVal, Some(0), Some(2), Some(5), Some(40)},
     ppa \in {NoneVal, Some(450000), Some(800000), Some(900000)},
     ph \in {NoneVal, Some(TRUE), Some(FALSE)},
     fz \in {NoneVal, Some(<<"a", "e">>), Some(<<"X">>)},
     z \in {NoneVal, Some(<<"R", "1">>), Some(<<"A", "G", "1">>)}}

Probes ==
  [fn : {"_queries"}, criteria : PlanCriteria, env : EnvStrings(MaxEnvLen)]
    \cup [fn : {"_score_item"}, title : ProbeTitles, snippet : ProbeSnippets,
          domain : {<<"a">>, <<"c">>}, criteria : ScoreCriteria,
          env : {<<>>, <<"a">>}]
    \cup [fn : {"keep_by_criteria"}, lst : ProbeListings, criteria : FilterCriteria]

InitFunctions ==
  /\ cfg \in {c \in Configs : Enabled(c) /\ c.global_cap = 1}
  /\ cse = [index |-> CseItems, quota |-> MaxRaw, pages |-> VerifyOutcomes]
  /\ cse_calls = 0
  /\ resp = "none"
  /\ disabled_logs = 0
  /\ sleeps = 0
  /\ area = NoArea
  /\ probe \in Probes
  /\ result = NoneVal
  /\ pc = "call"
  /\ qi = 1
  /\ items = <<>>
  /\ scored = <<>>
  /\ ci = 1
  /\ budget = NewBudget(cfg.global_cap, cfg.host_cap)
  /\ seen_urls = {}
  /\ emitted = <<>>
  /\ fetched = 0
  /\ scoreLog = [u \in NormLinks |-> 0]
  /\ verifyLog = [u \in StrippedLinks |-> <<>>]
  /\ draw = NoneVal
  /\ reserved = NoneVal
  /\ callers = <<>>
  /\ limiter = NoLimiter

\* the variables a single call of a pure method leaves alone
PureFrame ==
  UNCHANGED <<cfg, qi, items, scored, ci, budget, seen_urls, emitted, fetched,
              scoreLog, verifyLog, draw, reserved, callers, cse, cse_calls, resp,
              disabled_logs, probe, limiter, sleeps, area>>

\* self._queries(criteria) with CSE_SOURCES = probe.env
CallQueries ==
  /\ pc = "call"
  /\ probe.fn = "_queries"
  /\ result' = Some(Queries(probe.criteria, ParseSources(probe.env)))
  /\ pc' = "returned"
  /\ PureFrame

\* self._score_item(title, snippet, domain, criteria) with CSE_SOURCES = probe.env
CallScoreItem ==
  /\ pc = "call"
  /\ probe.fn = "_score_item"
  /\ result' = Some(ScoreItem(probe.title, probe.snippet, probe.domain,
                              probe.criteria, ParseSources(probe.env)))
  /\ pc' = "returned"
  /\ PureFrame

\* self.keep_by_criteria(lst, criteria)
CallKeepByCriteria ==
  /\ pc = "call"
  /\ probe.fn = "keep_by_criteria"
  /\ result' = Some(KeepByCriteria(probe.lst, probe.criteria))
  /\ pc' = "returned"
  /\ PureFrame

NextFunctions ==
  \/ CallQueries
  \/ CallScoreItem
  \/ CallKeepByCriteria

SpecFunctions == InitFunctions /\ [][NextFunctions]_vars

\* ------------------------------------------------------------ concurrent consumers
\* MaxCallers threads, each calling consume(url) once on one shared ledger
Callers == 1..MaxCallers

Idle == [pc |-> "idle", url |-> <<>>, ok |-> FALSE, at |-> 0]

\* how many calls have returned
Returned == Cardinality({k \in Callers : callers[k].pc = "done"})

InitLedger ==
  /\ cfg \in {c \in Configs : Enabled(c)}
  /\ cse = [index |-> CseItems, quota |-> MaxRaw, pages |-> VerifyOutcomes]
  /\ cse_calls = 0
  /\ resp = "none"
  /\ disabled_logs = 0
  /\ sleeps = 0
  /\ area = NoArea
  /\ probe = NoProbe
  /\ result = NoneVal
  /\ pc = "ledger"
  /\ qi = 1
  /\ items = <<>>
  /\ scored = <<>>
  /\ ci = 1
  /\ budget = NewBudget(cfg.global_cap, cfg.host_cap)
  /\ seen_urls = {}
  /\ emitted = <<>>
  /\ fetched = 0
  /\ scoreLog = [u \in NormLinks |-> 0]
  /\ verifyLog = [u \in StrippedLinks |-> <<>>]
  /\ draw = NoneVal
  /\ reserved = NoneVal
  /\ callers = [k \in Callers |-> Idle]
  /\ limiter = NoLimiter

\* faulty variant of Call: consume reads the ledger in one step and writes the
\* counters it computed from that reading in a later one
CallRacy(k) ==
  /\ pc = "ledger"
  /\ \/ /\ callers[k].pc = "idle"
        /\ \E url \in StrippedLinks :
             callers' = [callers EXCEPT
                           ![k] = [pc |-> "read", url |-> url, ok |-> FALSE,
                                   at |-> 0, snap |-> budget]]
        /\ UNCHANGED budget
     \/ /\ callers[k].pc = "read"
        /\ budget' = TryConsume(callers[k].snap, callers[k].url).budget
        /\ callers' = [callers EXCEPT
                         ![k] = [pc |-> "done", url |-> callers[k].url,
                                 ok |-> TryConsume(callers[k].snap, callers[k].url).ok,
                                 at |-> Returned + 1]]
  /\ UNCHANGED <<cfg, pc, qi, items, scored, ci, seen_urls, emitted, fetched,
                 scoreLog, verifyLog, draw, reserved, cse, cse_calls, resp,
                 disabled_logs, probe, result, limiter, sleeps,
                 area>>

\* caller k runs consume(url) as one atomic step: the k-th call to return
\* sees the ledger the calls before it left
Call(k) ==
  /\ pc = "ledger"
  /\ callers[k].pc = "idle"
  /\ \E url \in StrippedLinks :
       /\ budget' = TryConsume(budget, url).budget
       /\ callers' = [callers EXCEPT
                        ![k] = [pc |-> "done", url |-> url,
                                ok |-> TryConsume(budget, url).ok,
                                at |-> Returned + 1]]
  /\ UNCHANGED <<cfg, pc, qi, items, scored, ci, seen_urls, emitted, fetched,
                 scoreLog, verifyLog, draw, reserved, cse, cse_calls, resp,
                 disabled_logs, probe, result, limiter, sleeps,
                 area>>

NextLedger == \E k \in Callers : Call(k)

SpecLedger == InitLedger /\ [][NextLedger]_vars

\* ------------------------------------------------------------ rate limiter
\* 1 / PER_HOST_RPS, in clock ticks
MinInterval == 2

\* JITTER_RANGE, in clock ticks
Jitters == {0, 1}

\* CONNECT_RETRIES
RetryCount == 1

\* two concurrent paths: 1 runs LandWatchAdapter._get against host a,
\* 2 runs verify_url against either host
Waiters == {1, 2}

FnOf(k) == IF k = 1 THEN "_get" ELSE "verify_url"

HostsOf(k) == IF k = 1 THEN {<<"a">>} ELSE Hosts

NoFetch == [kind |-> "none"]

Failure == [kind |-> "failure"]

\* what a request can be answered with
Responses ==
  [kind : {"response"}, status : {200, 404},
   ctype : {"text/html", "application/pdf"}, topical : BOOLEAN]

\* the answers _get tells apart: by status only
ResponsesOf(k) ==
  IF FnOf(k) = "_get"
  THEN {r \in Responses : r.ctype = "text/html" /\ r.topical}
  ELSE Responses

NoOut == [ok |-> FALSE, reason |-> "", status |-> -1]

Resting ==
  [pc |-> "idle", host |-> NoneVal, jitter |-> 0, prev |-> NoneVal,
   attempts |-> 0, paced |-> 0, seen |-> NoFetch, out |-> NoOut]

\* faulty variant of Classify: the content type is looked at before the status
ClassifyContentFirst(r) ==
  IF r = Failure THEN [ok |-> FALSE, reason |-> "network-error", status |-> 0]
  ELSE IF r.ctype # "text/html"
       THEN [ok |-> FALSE, reason |-> "wrong-content-type", status |-> r.status]
  ELSE IF r.status >= 400 THEN [ok |-> FALSE, reason |-> "dead", status |-> r.status]
  ELSE IF ~r.topical THEN [ok |-> FALSE, reason |-> "off-topic", status |-> r.status]
  ELSE [ok |-> TRUE, reason |-> "", status |-> r.status]

\* verify_url: the VerificationResult for what the last attempt came back with
Classify(r) ==
  IF r = Failure THEN [ok |-> FALSE, reason |-> "network-error", status |-> 0]
  ELSE IF r.status >= 400 THEN [ok |-> FALSE, reason |-> "dead", status |-> r.status]
  ELSE IF r.ctype # "text/html"
       THEN [ok |-> FALSE, reason |-> "wrong-content-type", status |-> r.status]
  ELSE IF ~r.topical THEN [ok |-> FALSE, reason |-> "off-topic", status |-> r.status]
  ELSE [ok |-> TRUE, reason |-> "", status |-> r.status]

\* LandWatchAdapter._get: None after the last failure and for a status >= 400,
\* the parsed page otherwise
GetResult(r) ==
  IF r = Failure THEN [ok |-> FALSE, reason |-> "", status |-> 0]
  ELSE [ok |-> r.status < 400, reason |-> "", status |-> r.status]

Outcome(k, r) == IF FnOf(k) = "_get" THEN GetResult(r) ELSE Classify(r)

InitLimiter ==
  /\ cfg \in {c \in Configs : Enabled(c) /\ c.global_cap = 1}
  /\ cse = [index |-> CseItems, quota |-> MaxRaw, pages |-> VerifyOutcomes]
  /\ cse_calls = 0
  /\ resp = "none"
  /\ disabled_logs = 0
  /\ sleeps = 0
  /\ area = NoArea
  /\ probe = NoProbe
  /\ result = NoneVal
  /\ pc = "limiter"
  /\ qi = 1
  /\ items = <<>>
  /\ scored = <<>>
  /\ ci = 1
  /\ budget = NewBudget(cfg.global_cap, cfg.host_cap)
  /\ seen_urls = {}
  /\ emitted = <<>>
  /\ fetched = 0
  /\ scoreLog = [u \in NormLinks |-> 0]
  /\ verifyLog = [u \in StrippedLinks |-> <<>>]
  /\ draw = NoneVal
  /\ reserved = NoneVal
  /\ callers = [k \in Waiters |-> Resting]
  /\ limiter = NoLimiter

\* the variables pacing and fetching leave alone
LimiterFrame ==
  UNCHANGED <<cfg, pc, qi, items, scored, ci, budget, seen_urls, emitted, fetched,
              scoreLog, verifyLog, draw, reserved, cse, cse_calls, resp,
              disabled_logs, probe, result, sleeps, area>>

\* path k calls _get(url) or verify_url(url) for a URL of host h
CallStart(k, h) ==
  /\ pc = "limiter"
  /\ callers[k].pc = "idle"
  /\ h \in HostsOf(k)
  /\ callers' = [callers EXCEPT ![k] = [@ EXCEPT !.pc = "want", !.host = Some(h)]]
  /\ UNCHANGED limiter
  /\ LimiterFrame

\* the jitters a caller that read the last turn `last` can draw (none is
\* needed when the host had no turn yet)
JittersAfter(last) == IF last = NoneVal THEN {0} ELSE Jitters

\* when the turn of path k is due
Due(k) ==
  IF callers[k].prev = NoneVal THEN 0
  ELSE callers[k].prev[1] + MinInterval + callers[k].jitter

\* faulty variant of Enter: the last turn is read without taking the host's lock
EnterRacy(k) ==
  /\ pc = "limiter"
  /\ callers[k].pc = "want"
  /\ \E j \in JittersAfter(limiter.last[callers[k].host[1]]) :
       callers' = [callers EXCEPT
                     ![k] = [@ EXCEPT !.pc = "sleep", !.jitter = j,
                                      !.prev = limiter.last[callers[k].host[1]]]]
  /\ UNCHANGED limiter
  /\ LimiterFrame

\* waitTurn(host), entry: take the host's lock, read its last turn and draw
\* the jitter
Enter(k) ==
  /\ pc = "limiter"
  /\ callers[k].pc = "want"
  /\ limiter.lock[callers[k].host[1]] = NoneVal
  /\ \E j \in JittersAfter(limiter.last[callers[k].host[1]]) :
       callers' = [callers EXCEPT
                     ![k] = [@ EXCEPT !.pc = "sleep", !.jitter = j,
                                      !.prev = limiter.last[callers[k].host[1]]]]
  /\ limiter' = [limiter EXCEPT !.lock[callers[k].host[1]] = Some(k)]
  /\ LimiterFrame

\* the turn granted to path k, as the host's record of its latest turn:
\* `since` is when the turn before it was granted
Turn(k) ==
  LET h == callers[k].host[1]
  IN  [since |-> IF limiter.turns[h] = <<>> THEN NoneVal
                 ELSE Some(limiter.turns[h][1].t),
       t |-> limiter.now, prev |-> callers[k].prev, jitter |-> callers[k].jitter,
       run |-> limiter.run]

\* waitTurn(host), exit: the pause is over; record the turn, release the lock
Grant(k) ==
  /\ pc = "limiter"
  /\ callers[k].pc = "sleep"
  /\ limiter.now >= Due(k)
  /\ limiter' =
       [limiter EXCEPT
          !.last[callers[k].host[1]] = Some(limiter.now),
          !.lock[callers[k].host[1]] = NoneVal,
          !.turns[callers[k].host[1]] = <<Turn(k)>>]
  /\ callers' = [callers EXCEPT
                   ![k] = [@ EXCEPT !.pc = "fetch", !.paced = @ + 1, !.jitter = 0,
                                    !.prev = NoneVal]]
  /\ LimiterFrame

\* faulty variant of FetchFails: the retry is sent without a new pause
FetchFailsUnpaced(k) ==
  /\ pc = "limiter"
  /\ callers[k].pc = "fetch"
  /\ callers' =
       [callers EXCEPT
          ![k] = IF callers[k].attempts + 1 >= RetryCount + 1
                 THEN [@ EXCEPT !.pc = "done", !.attempts = @ + 1,
                                !.seen = Failure, !.out = Outcome(k, Failure)]
                 ELSE [@ EXCEPT !.attempts = @ + 1]]
  /\ UNCHANGED limiter
  /\ LimiterFrame

\* the request fails in transport: retry while attempts are left (_get paces
\* every attempt, verify_url paces once), else give up
FetchFails(k) ==
  /\ pc = "limiter"
  /\ callers[k].pc = "fetch"
  /\ callers' =
       [callers EXCEPT
          ![k] = IF callers[k].attempts + 1 >= RetryCount + 1
                 THEN [@ EXCEPT !.pc = "done", !.attempts = @ + 1,
                                !.seen = Failure, !.out = Outcome(k, Failure)]
                 ELSE [@ EXCEPT !.pc = IF FnOf(k) = "_get" THEN "want" ELSE "fetch",
                                !.attempts = @ + 1]]
  /\ UNCHANGED limiter
  /\ LimiterFrame

\* the request is answered: no retry, whatever the status
FetchAnswers(k) ==
  /\ pc = "limiter"
  /\ callers[k].pc = "fetch"
  /\ \E r \in ResponsesOf(k) :
       callers' = [callers EXCEPT
                     ![k] = [@ EXCEPT !.pc = "done", !.attempts = @ + 1,
                                      !.seen = r, !.out = Outcome(k, r)]]
  /\ UNCHANGED limiter
  /\ LimiterFrame

\* the call returns
Return(k) ==
  /\ pc = "limiter"
  /\ callers[k].pc = "done"
  /\ callers' = [callers EXCEPT ![k] = Resting]
  /\ UNCHANGED limiter
  /\ LimiterFrame

\* faulty variant of NewRun: the limiter's memory ends with the run
NewRunForgets ==
  /\ pc = "limiter"
  /\ \A k \in Waiters : callers[k].pc = "idle"
  /\ limiter.run + 1 \in Runs
  /\ limiter' = [limiter EXCEPT !.run = @ + 1, !.last = [h \in Hosts |-> NoneVal]]
  /\ UNCHANGED callers
  /\ LimiterFrame

\* no call is under way: the run ends and a later run of the same process
\* begins; the limiter is module state and stays as it is
NewRun ==
  /\ pc = "limiter"
  /\ \A k \in Waiters : callers[k].pc = "idle"
  /\ limiter.run + 1 \in Runs
  /\ limiter' = [limiter EXCEPT !.run = @ + 1]
  /\ UNCHANGED callers
  /\ LimiterFrame

\* time passes
Tick ==
  /\ pc = "limiter"
  /\ limiter.now < MaxClock
  /\ limiter' = [limiter EXCEPT !.now = @ + 1]
  /\ UNCHANGED callers
  /\ LimiterFrame

NextLimiter ==
  \/ \E k \in Waiters, h \in Hosts : CallStart(k, h)
  \/ \E k \in Waiters : Enter(k)
  \/ \E k \in Waiters : Grant(k)
  \/ \E k \in Waiters : FetchFails(k)
  \/ \E k \in Waiters : FetchAnswers(k)
  \/ \E k \in Waiters : Return(k)
  \/ NewRun
  \/ Tick

SpecLimiter == InitLimiter /\ [][NextLimiter]_vars

\* ------------------------------------------------------------ Zillow area
\* the largest ZILLOW_MAX_VISIBLE and ZILLOW_SCROLL_STEPS, and the most cards
\* of one scroll step that pass keep_by_criteria
MaxVisible == 2

MaxScroll == 3

MaxCards == 2

\* line 1137: the scroll steps without a new card after which the loop breaks
StagnantLimit == 3

\* the settings of the adapter (lines 155-213); int() takes any integer,
\* ZILLOW_MAX_VISIBLE=0 included
AreaSettings ==
  [fn : {"_run_one_area"}, max_visible : 0..MaxVisible, scroll_steps : 1..MaxScroll,
   keep_open_on_error : BOOLEAN, debug : BOOLEAN]

\* line 1000: drv = None, nothing yielded
AreaStart ==
  [at |-> "start", drv |-> "none", quits |-> 0, out |-> 0, yielded |-> 0,
   step |-> 1, stagnant |-> 0, pending |-> 0, grew |-> FALSE, how |-> "none"]

InitZillow ==
  /\ cfg \in {c \in Configs : Enabled(c) /\ c.global_cap = 1}
  /\ cse = [index |-> CseItems, quota |-> MaxRaw, pages |-> VerifyOutcomes]
  /\ cse_calls = 0
  /\ resp = "none"
  /\ disabled_logs = 0
  /\ sleeps = 0
  /\ probe \in AreaSettings
  /\ result = NoneVal
  /\ pc = "zillow"
  /\ qi = 1
  /\ items = <<>>
  /\ scored = <<>>
  /\ ci = 1
  /\ budget = NewBudget(cfg.global_cap, cfg.host_cap)
  /\ seen_urls = {}
  /\ emitted = <<>>
  /\ fetched = 0
  /\ scoreLog = [u \in NormLinks |-> 0]
  /\ verifyLog = [u \in StrippedLinks |-> <<>>]
  /\ draw = NoneVal
  /\ reserved = NoneVal
  /\ callers = <<>>
  /\ limiter = NoLimiter
  /\ area = AreaStart

\* the variables _run_one_area leaves alone
ZillowFrame ==
  UNCHANGED <<cfg, pc, qi, items, scored, ci, budget, seen_urls, emitted, fetched,
              scoreLog, verifyLog, draw, reserved, callers, cse, cse_calls, resp,
              disabled_logs, probe, result, limiter, sleeps>>

\* line 1003: _make_driver() returns a driver
MakeDriver ==
  /\ pc = "zillow"
  /\ area.at = "start"
  /\ area' = [area EXCEPT !.at = "home", !.drv = "open"]
  /\ ZillowFrame

\* line 1003: _make_driver() raises a WebDriverException, drv stays None
MakeDriverFails ==
  /\ pc = "zillow"
  /\ area.at = "start"
  /\ area' = [area EXCEPT !.at = "except", !.how = "webdriver"]
  /\ ZillowFrame

\* lines 1007-1066: the homepage is loaded, no CAPTCHA stays
Home ==
  /\ pc = "zillow"
  /\ area.at = "home"
  /\ area' = [area EXCEPT !.at = "nav"]
  /\ ZillowFrame

\* lines 1068-1110: the search is started, no CAPTCHA stays, filters are set
Navigate ==
  /\ pc = "zillow"
  /\ area.at = "nav"
  /\ area' = [area EXCEPT !.at = "collect"]
  /\ ZillowFrame

\* lines 1048, 1055, 1073, 1085, 1089, 1099, 1103: an early return, on a
\* CAPTCHA that does not clear or a search that does not start
Abandon ==
  /\ pc = "zillow"
  /\ area.at \in {"home", "nav"}
  /\ area' = [area EXCEPT !.at = "finally", !.how = "abandoned"]
  /\ ZillowFrame

\* a call on the driver raises a WebDriverException (caught at line 1151)
DriverError ==
  /\ pc = "zillow"
  /\ area.at \in {"home", "nav", "collect", "cards"}
  /\ area' = [area EXCEPT !.at = "except", !.how = "webdriver"]
  /\ ZillowFrame

\* another exception is raised: no handler, the finally clause runs
OtherError ==
  /\ pc = "zillow"
  /\ area.at \in {"home", "nav", "collect", "cards"}
  /\ area' = [area EXCEPT !.at = "finally", !.how = "raised"]
  /\ ZillowFrame

\* lines 1112-1130: a scroll step reads the cards; `pending` of the new ones
\* pass keep_by_criteria
Collect ==
  /\ pc = "zillow"
  /\ area.at = "collect"
  /\ area.step <= probe.scroll_steps
  /\ \E n \in 0..MaxCards, g \in BOOLEAN :
       /\ n > 0 => g
       /\ area' = [area EXCEPT !.at = "cards", !.pending = n, !.grew = g]
  /\ ZillowFrame

\* lines 1112 and 1149: the scroll steps are used up
ScrollsDone ==
  /\ pc = "zillow"
  /\ area.at = "collect"
  /\ area.step > probe.scroll_steps
  /\ area' = [area EXCEPT !.at = "finally", !.how = "finished"]
  /\ ZillowFrame

\* line 1131: yield lst
YieldCard ==
  /\ pc = "zillow"
  /\ area.at = "cards"
  /\ area.pending > 0
  /\ area' = [area EXCEPT !.at = "yield", !.out = @ + 1, !.pending = @ - 1]
  /\ ZillowFrame

\* lines 1132-1135: the consumer asks for the next Listing
ResumeArea ==
  /\ pc = "zillow"
  /\ area.at = "yield"
  /\ area' = IF area.yielded + 1 >= probe.max_visible
             THEN [area EXCEPT !.yielded = @ + 1, !.at = "finally",
                               !.how = "max_visible"]
             ELSE [area EXCEPT !.yielded = @ + 1, !.at = "cards"]
  /\ ZillowFrame

\* the consumer closes the generator: GeneratorExit at line 1131
CloseArea ==
  /\ pc = "zillow"
  /\ area.at = "yield"
  /\ area' = [area EXCEPT !.at = "finally", !.how = "closed"]
  /\ ZillowFrame

\* lines 1136-1147: the cards of the step are done; break after three steps
\* without a new card or on a CAPTCHA that stays, else scroll on
ScrollOn ==
  /\ pc = "zillow"
  /\ area.at = "cards"
  /\ area.pending = 0
  /\ LET st == IF area.grew THEN 0 ELSE area.stagnant + 1
     IN  \E captcha \in BOOLEAN :
           area' = IF st >= StagnantLimit \/ captcha
                   THEN [area EXCEPT !.stagnant = st, !.at = "finally",
                                     !.how = "finished"]
                   ELSE [area EXCEPT !.stagnant = st, !.at = "collect",
                                     !.step = @ + 1]
  /\ ZillowFrame

\* lines 1151-1154: the handler of WebDriverException
HandleDriverError ==
  /\ pc = "zillow"
  /\ area.at = "except"
  /\ area' = [area EXCEPT !.at = "finally"]
  /\ ZillowFrame

\* faulty variant of Finally: quit() stands at the end of the body, which a
\* closed generator or an uncaught exception never reaches
FinallyAtEndOfBody ==
  /\ pc = "zillow"
  /\ area.at = "finally"
  /\ area' = IF /\ area.drv # "none"
                /\ area.how \notin {"closed", "raised"}
                /\ ~(probe.keep_open_on_error /\ probe.debug)
             THEN [area EXCEPT !.at = "left", !.drv = "quit", !.quits = @ + 1]
             ELSE [area EXCEPT !.at = "left"]
  /\ ZillowFrame

\* lines 1155-1162: the finally clause
Finally ==
  /\ pc = "zillow"
  /\ area.at = "finally"
  /\ area' = IF area.drv # "none" /\ ~(probe.keep_open_on_error /\ probe.debug)
             THEN [area EXCEPT !.at = "left", !.drv = "quit", !.quits = @ + 1]
             ELSE [area EXCEPT !.at = "left"]
  /\ ZillowFrame

NextZillow ==
  \/ MakeDriver
  \/ MakeDriverFails
  \/ Home
  \/ Navigate
  \/ Abandon
  \/ DriverError
  \/ OtherError
  \/ Collect
  \/ ScrollsDone
  \/ YieldCard
  \/ ResumeArea
  \/ CloseArea
  \/ ScrollOn
  \/ HandleDriverError
  \/ Finally

SpecZillow == InitZillow /\ [][NextZillow]_vars

\* ------------------------------------------------------------ properties
RECURSIVE SumLen(_, _)
\* the number of entries f holds for the keys in S
SumLen(f, S) ==
  IF S = {} THEN 0
  ELSE LET u == CHOOSE x \in S : TRUE IN Len(f[u]) + SumLen(f, S \ {u})

\* how often the verifier was called for the links of normalized URL n
VerifyCount(n) == SumLen(verifyLog, {u \in StrippedLinks : NormUrl(u) = n})

\* how often the verifier was called for links of host h
VerifyCountHost(h) == SumLen(verifyLog, {u \in StrippedLinks : Host(u) = h})

\* the callers whose consume returned true
Won == {k \in Callers : callers[k].pc = "done" /\ callers[k].ok}

\* the positions of the raw items that have a usable link
ValidRaw(its) == {i \in 1..Len(its) : NormUrl(ItemUrl(its[i])) # <<>>}

RawKeys(its) == {NormUrl(ItemUrl(its[i])) : i \in ValidRaw(its)}

FrontierKeys(sc) == {NormUrl(ItemUrl(sc[j].it)) : j \in 1..Len(sc)}

\* the step that fetches, scores and ranks one query
ScoringStep == pc = "query" /\ pc' = "rank"

\* C1: the ledger's global and per-host remaining units are never negative,
\* and no step of a run increases either of them.
C1_BudgetNeverGrows ==
  /\ [](/\ budget.total_left >= 0
        /\ \A h \in Hosts : budget.per_host_left[h] >= 0)
  /\ [][/\ budget'.total_left <= budget.total_left
        /\ \A h \in Hosts : budget'.per_host_left[h] <= budget.per_host_left[h]]_vars

\* a run that consumed its last unit, emitted a record and then had a consume fail
C1_Witness ==
  /\ budget.total_left = 0
  /\ budget.exhausted
  /\ Len(emitted) > 0

\* C2: with MaxCallers concurrent consumers on one ledger of global cap C, in
\* every interleaving at most C calls return true, the global counter is never
\* negative, and it always equals C minus the calls that returned true (each
\* call checks and decrements in one step).
C2_ConcurrentConsume ==
  /\ Cardinality(Won) <= cfg.global_cap
  /\ budget.total_left >= 0
  /\ budget.total_left = cfg.global_cap - Cardinality(Won)

\* more callers than units: all have returned, exactly C of them with true
C2_Witness ==
  /\ Returned = MaxCallers
  /\ MaxCallers > cfg.global_cap
  /\ Cardinality(Won) = cfg.global_cap
  /\ budget.total_left = 0

\* C3: once the global counter is 0 every consume returns false, whatever the
\* host; with global cap 1 and host cap 1 exactly the first call succeeds.
C3_GlobalExhaustion ==
  /\ []((cfg.global_cap = 1 /\ cfg.host_cap = 1) =>
          \A k \in Callers :
            callers[k].pc = "done" => (callers[k].ok <=> callers[k].at = 1))
  /\ [][budget.total_left = 0 =>
          \A k \in Callers : callers'[k] # callers[k] => ~callers'[k].ok]_vars

\* caps 1 and 1: the first call, for host a, succeeded; the second, for host b
\* whose counter is untouched, failed
C3_Witness ==
  /\ cfg.global_cap = 1
  /\ cfg.host_cap = 1
  /\ budget.per_host_left[<<"b">>] = 1
  /\ \E k, j \in Callers :
       /\ callers[k].pc = "done" /\ callers[k].at = 1 /\ callers[k].ok
       /\ Host(callers[k].url) = <<"a">>
       /\ callers[j].pc = "done" /\ callers[j].at = 2 /\ ~callers[j].ok
       /\ Host(callers[j].url) = <<"b">>

\* C4: a consume that returns true takes exactly 1 from the global counter and
\* 1 from the counter of the URL's host and leaves the other hosts' counters;
\* one that returns false leaves the global and all host counters.
C4_ConsumeFrame ==
  [][\A k \in Callers :
       callers'[k] # callers[k] =>
         LET h == Host(callers'[k].url)
         IN  IF callers'[k].ok
             THEN /\ budget'.total_left = budget.total_left - 1
                  /\ budget'.per_host_left[h] = budget.per_host_left[h] - 1
                  /\ \A g \in Hosts \ {h} :
                       budget'.per_host_left[g] = budget.per_host_left[g]
             ELSE /\ budget'.total_left = budget.total_left
                  /\ budget'.per_host_left = budget.per_host_left]_vars

\* one consume for host a succeeded and a later one failed; host b is untouched
C4_Witness ==
  /\ budget.per_host_left[<<"b">>] = cfg.host_cap
  /\ budget.per_host_left[<<"a">>] = cfg.host_cap - 1
  /\ budget.total_left = cfg.global_cap - 1
  /\ \E k, j \in Callers :
       /\ callers[k].pc = "done" /\ callers[k].ok
       /\ callers[j].pc = "done" /\ ~callers[j].ok

\* C5: the verifier is called for a URL only while a unit consumed for that
\* very URL is in hand, and a unit comes in hand only by a consume that took 1
\* from the global and the host counter; so the verifier calls of a run are at
\* most the units consumed, globally and per host, hence at most the caps; a
\* candidate the gate drops consumes nothing.
C5_VerifyNeedsUnit ==
  /\ [](/\ SumLen(verifyLog, StrippedLinks) <= cfg.global_cap - budget.total_left
        /\ cfg.global_cap - budget.total_left <= cfg.global_cap
        /\ \A h \in Hosts :
             /\ VerifyCountHost(h) <= cfg.host_cap - budget.per_host_left[h]
             /\ cfg.host_cap - budget.per_host_left[h] <= cfg.host_cap)
  /\ [][/\ \A u \in StrippedLinks :
             verifyLog'[u] # verifyLog[u] => reserved = Some(u) /\ reserved' = NoneVal
        /\ (reserved' # reserved /\ reserved' # NoneVal) =>
             /\ reserved = NoneVal
             /\ budget'.total_left = budget.total_left - 1
             /\ budget'.per_host_left[Host(reserved'[1])]
                  = budget.per_host_left[Host(reserved'[1])] - 1
        /\ (pc = "rank" /\ pc' = "rank" /\ ci' = ci + 1) =>
             budget' = budget /\ verifyLog' = verifyLog]_vars

\* a query whose first candidate was verified on one unit and whose second,
\* sub-threshold one was dropped by the gate
C5_Witness ==
  /\ pc = "rank"
  /\ Len(scored) = 2
  /\ ci = 3
  /\ scored[2].s < ScoreThreshold
  /\ draw # NoneVal
  /\ draw[1] > ExploreRate
  /\ SumLen(verifyLog, StrippedLinks) = 1
  /\ budget.total_left = cfg.global_cap - 1

\* C6: within a run the verifier is called at most once per normalized URL.
C6_VerifyOncePerUrl == \A n \in NormLinks : VerifyCount(n) <= 1

\* the second query returns, in other letter case, a link the first query had
\* verified; it is not ranked again
C6_Witness ==
  /\ pc = "rank"
  /\ qi = 2
  /\ Len(items) = 1
  /\ ItemUrl(items[1]) = A1U
  /\ Len(verifyLog[A1]) = 1
  /\ scored = <<>>

\* C7: a normalized URL is scored at most once in a run; a raw item whose URL
\* was seen in an earlier query is skipped before scoring, and one not seen
\* before is scored in the query that first returns it.
C7_ScoredOnce ==
  /\ [](\A n \in NormLinks : scoreLog[n] <= 1)
  /\ [][ScoringStep =>
          \A n \in RawKeys(items') :
            IF n \in seen_urls
            THEN scoreLog'[n] = scoreLog[n] /\ n \notin FrontierKeys(scored')
            ELSE scoreLog'[n] = 1 /\ n \in FrontierKeys(scored')]_vars

\* the second query returns a URL the first query scored; it is skipped
C7_Witness ==
  /\ pc = "rank"
  /\ qi = 2
  /\ fetched = 2
  /\ Len(items) = 1
  /\ RawKeys(items) \subseteq seen_urls
  /\ \A n \in RawKeys(items) : scoreLog[n] = 1
  /\ RawKeys(items) # {}
  /\ scored = <<>>

\* the link without its query string and fragment, stripped and lower-cased
CutKey(url) == Lower(UpTo(Strip(url), {"?", "#"}))

\* C8 as stated: of the links that differ only in letter case, query string
\* or fragment, at most one is scored in a run.
C8_QueryFragmentInsensitive ==
  \A n, m \in NormLinks :
    (n # m /\ CutKey(n) = CutKey(m)) => ~(scoreLog[n] > 0 /\ scoreLog[m] > 0)

\* C8 amended: the uniqueness key is the stripped, lower-cased link, query
\* string and fragment included: a query scores exactly the raw links whose
\* key was not seen, once each, and marks them seen; the verifier is called
\* only for scored keys, at most once each.
C8_KeyIsStrippedLowered ==
  /\ [](\A n \in NormLinks :
          /\ VerifyCount(n) <= scoreLog[n]
          /\ scoreLog[n] = (IF n \in seen_urls THEN 1 ELSE 0))
  /\ [][ScoringStep =>
          /\ seen_urls' = seen_urls \cup RawKeys(items')
          /\ FrontierKeys(scored') = RawKeys(items') \ seen_urls
          /\ Len(scored') = Cardinality(FrontierKeys(scored'))]_vars

\* a link and the same link with a query string are both scored in one run
C8_Witness ==
  /\ scoreLog[NormUrl(A1)] = 1
  /\ scoreLog[NormUrl(A1Q)] = 1
  /\ CutKey(A1) = CutKey(A1Q)

\* C9: when verification of a URL is not ok, that step emits nothing, gives
\* no unit back and moves to the next ranked candidate of the same query; the
\* URL is not verified again in the run and no record of the run comes from it.
C9_NotOkIsDropped ==
  /\ [](/\ \A i \in 1..Len(emitted) : FALSE \notin
             {verifyLog[emitted[i].link][j] : j \in 1..Len(verifyLog[emitted[i].link])}
        /\ \A u \in StrippedLinks :
             (verifyLog[u] # <<>> /\ ~verifyLog[u][1]) => VerifyCount(NormUrl(u)) = 1)
  /\ [][\A u \in StrippedLinks :
          verifyLog'[u] = Append(verifyLog[u], FALSE) =>
            /\ emitted' = emitted
            /\ budget' = budget
            /\ pc' = "rank"
            /\ qi' = qi
            /\ scored' = scored
            /\ ci' = ci + 1]_vars

\* in one query the first candidate failed verification and the second was
\* verified and emitted; both units stay consumed
C9_Witness ==
  /\ pc = "yield"
  /\ qi = 1
  /\ ci = 2
  /\ verifyLog[CandUrl] = <<TRUE>>
  /\ verifyLog[Strip(ItemUrl(scored[1].it))] = <<FALSE>>
  /\ Len(emitted) = 1
  /\ budget.total_left = cfg.global_cap - 2

\* C10: every emitted record is kept by the numeric filter, comes from a
\* candidate that passed the gate (score at least the threshold, or accepted
\* by the exploration draw) and whose verification was ok, and is appended in
\* the verification step of that candidate, on its consumed unit.
C10_RecordsGatedVerifiedKept ==
  /\ [](/\ Len(emitted) <= cfg.global_cap - budget.total_left
        /\ \A i \in 1..Len(emitted) :
             LET e == emitted[i]
             IN  /\ KeepByCriteria(e.lst, cfg.criteria)
                 /\ \/ e.lst.extras.score >= ScoreThreshold
                    \/ (e.draw # NoneVal /\ e.draw[1] <= ExploreRate)
                 /\ verifyLog[e.link] = <<TRUE>>)
  /\ [][emitted' # emitted =>
          /\ pc = "verify"
          /\ reserved = Some(CandUrl)
          /\ Len(emitted') = Len(emitted) + 1
          /\ SubSeq(emitted', 1, Len(emitted)) = emitted
          /\ emitted'[Len(emitted')].link = CandUrl
          /\ verifyLog'[CandUrl] = Append(verifyLog[CandUrl], TRUE)]_vars

\* a record from a sub-threshold candidate that the exploration draw let
\* through, next to one from a candidate above the threshold
C10_Witness ==
  /\ Len(emitted) = 2
  /\ emitted[1].lst.extras.score >= ScoreThreshold
  /\ emitted[2].lst.extras.score < ScoreThreshold
  /\ emitted[2].draw = Some(0)

\* the stripped URL of the j-th ranked candidate of the current query
UrlAt(j) == Strip(ItemUrl(scored[j].it))

\* C11: when the run stands at a query with the ledger exhausted, its next
\* step ends it: no request is sent, nothing is scored, consumed, verified or
\* emitted for that query, and a run that has ended takes no further step.
C11_ExhaustedStops ==
  /\ [][(pc = "query" /\ budget.exhausted) =>
          /\ pc' = "done"
          /\ UNCHANGED <<qi, cse_calls, scoreLog, seen_urls, budget, verifyLog,
                         emitted>>]_vars
  /\ [][pc = "done" =>
          /\ pc' = "done"
          /\ UNCHANGED <<qi, cse_calls, scoreLog, seen_urls, budget, verifyLog,
                         emitted>>]_vars

\* the run ended on the exhausted ledger with its second query never sent
C11_Witness ==
  /\ pc = "done"
  /\ budget.exhausted
  /\ qi = 2
  /\ qi <= Len(QueryList)
  /\ cse_calls = 1

\* C12: a step taken at a ranked candidate whose consume fails, other than
\* the gate dropping that candidate, abandons the frontier and moves to the
\* next query: it verifies and emits nothing, takes no unit, and the
\* candidates from that position on are left unverified and stay seen, also
\* those of a host whose counter is untouched.
C12_FailedConsumeEndsQuery ==
  [][(/\ pc = "rank"
      /\ ci <= Len(scored)
      /\ ~TryConsume(budget, CandUrl).ok
      /\ ~(pc' = "rank" /\ draw' # NoneVal /\ GateDrops(Cand.s, draw'))) =>
       /\ pc' = "query"
       /\ qi' = qi + 1
       /\ scored' = <<>>
       /\ verifyLog' = verifyLog
       /\ emitted' = emitted
       /\ budget'.total_left = budget.total_left
       /\ budget'.per_host_left = budget.per_host_left
       /\ \A j \in ci..Len(scored) :
            /\ verifyLog'[UrlAt(j)] = <<>>
            /\ SeenKey(UrlAt(j)) \in seen_urls']_vars

\* host cap 1 under global cap 2: the first query verified one link of host
\* a, the consume of its next link of host a failed, and the link of host b
\* ranked below it was scored but never verified though host b's counter and
\* one global unit are left
C12_Witness ==
  /\ pc = "query"
  /\ qi = 2
  /\ budget.total_left = 1
  /\ ~budget.exhausted
  /\ budget.per_host_left[<<"a">>] = 0
  /\ budget.per_host_left[<<"b">>] = cfg.host_cap
  /\ scoreLog[NormUrl(B1)] = 1
  /\ verifyLog[B1] = <<>>
  /\ SumLen(verifyLog, StrippedLinks) = 1

\* C13: without the API key or without the search-scope id a run sends no
\* request, scores, consumes, verifies and emits nothing, and prints the
\* "disabled" line exactly once, when it ends.
C13_DisabledDoesNothing ==
  ~Enabled(cfg) =>
    /\ pc \in {"start", "done"}
    /\ cse_calls = 0
    /\ resp = "none"
    /\ \A n \in NormLinks : scoreLog[n] = 0
    /\ budget = NewBudget(cfg.global_cap, cfg.host_cap)
    /\ SumLen(verifyLog, StrippedLinks) = 0
    /\ emitted = <<>>
    /\ disabled_logs = (IF pc = "done" THEN 1 ELSE 0)

\* the key is set, the scope id is not: the run has ended, with one line logged
C13_Witness ==
  /\ cfg.key # NoneVal
  /\ cfg.cx = NoneVal
  /\ pc = "done"
  /\ disabled_logs = 1
  /\ cse_calls = 0

\* C15: every query the run takes up gets exactly one request, and a request
\* that ends in a transport error or a status other than 200 raises nothing:
\* the run moves to the next query with nothing scored, consumed, verified or
\* emitted.
C15_FetchFailsSoft ==
  /\ [](/\ (Enabled(cfg) /\ pc \in {"query", "done"}) => cse_calls = qi - 1
        /\ pc \in {"rank", "verify", "yield", "aborted", "raised"} => cse_calls = qi)
  /\ [][(cse_calls' # cse_calls /\ resp' \in {"request-error", "http-status"}) =>
          /\ cse_calls' = cse_calls + 1
          /\ pc' = "query"
          /\ qi' = qi + 1
          /\ items' = <<>>
          /\ scored' = <<>>
          /\ UNCHANGED <<budget, seen_urls, scoreLog, verifyLog, emitted>>]_vars

\* the first query emitted a record, the second came back with a bad status,
\* and the run ended normally after both
C15_Witness ==
  /\ pc = "done"
  /\ resp = "http-status"
  /\ qi = 3
  /\ cse_calls = 2
  /\ Len(emitted) > 0

\* C14 as stated: no run ends in an error, and a run that was started and has
\* ended has processed every planned query or has an exhausted ledger.
C14_EndsWithoutFatalError ==
  /\ pc # "raised"
  /\ (Enabled(cfg) /\ pc = "done") => (qi > Len(QueryList) \/ budget.exhausted)

\* C16 as stated: a request answered with a malformed body raises nothing and
\* counts as zero items: the run moves to the next query with nothing scored.
C16_MalformedIsZeroItems ==
  [][(cse_calls' # cse_calls /\ resp' \in MalformedResponses) =>
       /\ pc' = "query"
       /\ qi' = qi + 1
       /\ items' = <<>>
       /\ scored' = <<>>
       /\ UNCHANGED <<budget, seen_urls, scoreLog, verifyLog, emitted>>]_vars

\* a call of _queries has returned
Planned == pc = "returned" /\ probe.fn = "_queries"

\* a call of _score_item has returned
ScoredProbe == pc = "returned" /\ probe.fn = "_score_item"

\* the location and topic part every query of the criteria c ends with
BaseOf(c) ==
  (IF Strip(c.county_normalized) # <<>>
   THEN Quoted(Strip(c.county_normalized) \o <<"County", ",">> \o Strip(c.state))
          \o Quoted(Strip(c.county_normalized) \o <<",">> \o Strip(c.state))
   ELSE Quoted(Strip(c.state)))
    \o <<"'", "land", "for", "sale", "'", "acre", "OR", "acres">>

\* C17: for criteria without a county (None, empty or blank), _queries
\* returns one query, with no site restriction, when CSE_SOURCES names no
\* domain, and otherwise as many queries as domains are named, the i-th being
\* the site query of the i-th domain.
C17_OneQueryPerDomain ==
  (Planned /\ Strip(probe.criteria.county_normalized) = <<>>) =>
    LET domains == ParseSources(probe.env)
        qs == result[1]
    IN  IF domains = <<>>
        THEN qs = <<BaseOf(probe.criteria)>>
        ELSE /\ Len(qs) = Len(domains)
             /\ \A i \in 1..Len(qs) :
                  qs[i] = <<"site:">> \o domains[i] \o BaseOf(probe.criteria)

\* no county and CSE_SOURCES = "b, a": two queries, site:b first, site:a second
C17_Witness ==
  /\ Planned
  /\ probe.criteria.county_normalized = <<>>
  /\ probe.env = <<"b", ",", " ", "a">>
  /\ Len(result[1]) = 2
  /\ result[1][1][2] = "b"
  /\ result[1][2][2] = "a"

\* C18 as stated: the query list is never empty and holds no query twice.
C18_QueriesDistinct ==
  Planned =>
    /\ Len(result[1]) >= 1
    /\ \A i, j \in 1..Len(result[1]) : i # j => result[1][i] # result[1][j]

\* C18 amended: the query list is never empty; with domains configured it
\* has one query per mention of a domain, and two of its queries are equal
\* exactly when the same domain is named at both positions.
C18_QueriesFollowDomains ==
  Planned =>
    LET domains == ParseSources(probe.env)
        qs == result[1]
    IN  /\ Len(qs) >= 1
        /\ domains # <<>> =>
             /\ Len(qs) = Len(domains)
             /\ \A i, j \in 1..Len(qs) : (qs[i] = qs[j]) <=> (domains[i] = domains[j])

\* CSE_SOURCES = "a,b,a": three queries, the first and the third equal, the
\* second different
C18_Witness ==
  /\ Planned
  /\ probe.env = <<"a", ",", "b", ",", "a">>
  /\ Len(result[1]) = 3
  /\ result[1][1] = result[1][3]
  /\ result[1][1] # result[1][2]

ParcelVocabulary == {<<"mls">>, <<"apn">>, <<"parcel">>, <<"lot", "size">>}

\* the text names a word of the parcel vocabulary, in any letter case
MentionsParcel(text) == \E ph \in ParcelVocabulary : HasPhrase(Lower(text), ph)

\* the weights, in half points, of the signals other than the parcel
\* vocabulary that hold: the text signals looked for in the lower-cased title
\* or snippet, the numbers read off the snippet
OtherSignals(title, snippet, domain, c, preferred) ==
  LET t == Lower(title)
      s == Lower(snippet)
      st == Lower(c.state)
      co == Lower(c.county_normalized)
      ac == ParseAcres(snippet)
      ppa == ParsePricePerAcre(snippet)
      pref == [i \in 1..Len(preferred) |-> Lower(preferred[i])]
  IN  (IF HasEither(s, t, <<"land", "for", "sale">>) THEN 6 ELSE 0)
    + (IF HasEither(s, t, <<"acre">>) THEN 4 ELSE 0)
    + (IF HasEither(s, t, <<"$">>) THEN 4 ELSE 0)
    + (IF st # <<>> /\ HasEither(s, t, st) THEN 2 ELSE 0)
    + (IF co # <<>> /\ HasEither(s, t, co) THEN 3 ELSE 0)
    + (IF ppa # NoneVal /\ c.max_price_per_acre # NoneVal
          /\ ppa[1] <= c.max_price_per_acre[1] THEN 6 ELSE 0)
    + (IF ac # NoneVal /\ c.min_acres # NoneVal /\ ac[1] >= c.min_acres[1]
       THEN 2 ELSE 0)
    + (IF ac # NoneVal /\ c.max_acres # NoneVal /\ ac[1] <= c.max_acres[1]
       THEN 2 ELSE 0)
    + (IF IsPreferred(domain, pref) THEN 1 ELSE 0)

\* C19 as stated: the score is the sum of the weights of the signals that
\* hold, the parcel vocabulary being looked for in the title or the snippet
\* like the other text signals.
C19_ScoreIsSignalSum ==
  ScoredProbe =>
    result[1] = OtherSignals(probe.title, probe.snippet, probe.domain,
                             probe.criteria, ParseSources(probe.env))
                  + (IF MentionsParcel(probe.title) \/ MentionsParcel(probe.snippet)
                     THEN 3 ELSE 0)

\* C19 amended: the score is the sum of the weights of the signals that hold,
\* the parcel vocabulary being looked for in the snippet only and the
\* price per acre and the acreage being those read off the snippet.
C19_ParcelInSnippetOnly ==
  ScoredProbe =>
    result[1] = OtherSignals(probe.title, probe.snippet, probe.domain,
                             probe.criteria, ParseSources(probe.env))
                  + (IF MentionsParcel(probe.snippet) THEN 3 ELSE 0)

\* the title "Parcel" over the snippet "lot size Indiana", domain a preferred:
\* 1.5 for the snippet's vocabulary, 1 for the state, 0.5 for the domain
C19_Witness ==
  /\ ScoredProbe
  /\ probe.title = <<"Parcel">>
  /\ probe.snippet = <<"lot", "size", "Indiana">>
  /\ probe.criteria = CritIndiana
  /\ probe.domain = <<"a">>
  /\ probe.env = <<"a">>
  /\ result = Some(6)

\* C20 as stated: under the Indiana criteria the title "40 acres land for sale
\* Tippecanoe County Indiana $180,000" scores at least 10.5 with any snippet,
\* so it passes a threshold of 10.5 without an exploration draw.
C20_LandTitleScores ==
  (ScoredProbe /\ probe.title = LandTitle /\ probe.criteria = CritIndiana) =>
    result[1] >= 21

\* C20 amended: that title scores at least 9.5 with any snippet, exactly 9.5
\* with an empty snippet and a domain that is not preferred, and at least 10.5
\* when the snippet states an acreage of at least 5; no threshold up to 9.5
\* makes the gate ask for an exploration draw.
C20_LandTitleScoresNineAndHalf ==
  (ScoredProbe /\ probe.title = LandTitle /\ probe.criteria = CritIndiana) =>
    /\ result[1] >= 19
    /\ \A th \in 0..19 : ~(result[1] < th)
    /\ (probe.snippet = <<>> /\ ~IsPreferred(probe.domain, ParseSources(probe.env))) =>
         result[1] = 19
    /\ (ParseAcres(probe.snippet) # NoneVal /\ ParseAcres(probe.snippet)[1] >= 5) =>
         result[1] >= 21

\* the title alone, on domain c with no preferred domain: 9.5
C20_Witness ==
  /\ ScoredProbe
  /\ probe.title = LandTitle
  /\ probe.criteria = CritIndiana
  /\ probe.snippet = <<>>
  /\ probe.domain = <<"c">>
  /\ result = Some(19)

\* ------------------------------------------------------------ C21
\* the Listings yielded for the LandTitle item once a page gave acreage 40
\* (the item has no snippet: an acreage can only come from verification)
LandRecords ==
  {emitted[i].lst : i \in {j \in 1..Len(emitted) :
                             /\ emitted[j].lst.title = LandTitle
                             /\ emitted[j].lst.acres = Some(40)}}

\* what search() builds for the LandTitle item from the verification ck
LandListing(ck) ==
  BuildListing(19, [link |-> A1, formattedUrl |-> NoneVal, title |-> LandTitle,
                    snippet |-> <<>>], A1, ck, QueryList[1])

\* C21 as stated: when verification of the LandTitle item is ok with acreage
\* 40, the Listing yielded has price-per-acre 4500.0 and passes the filter.
C21_LandRecordHasPpa ==
  \A lst \in LandRecords :
    /\ lst.price_per_acre = Some(450000)
    /\ KeepByCriteria(lst, cfg.criteria)

\* C21 amended: every verification of the LandTitle item that is ok with
\* acreage 40 gives a Listing the filter keeps, and the Listing yielded has
\* acreage 40; its price-per-acre is 4500.0 when the page also gave the price
\* 180000, and unknown (as is its price) when the price is in the title only.
C21_LandRecordPpaNeedsPrice ==
  /\ \A ck \in cse.pages :
       (ck.ok /\ ck.acres = Some(40)) =>
         /\ KeepByCriteria(LandListing(ck), cfg.criteria)
         /\ LandListing(ck).price = ck.price
  /\ \A lst \in LandRecords :
       /\ KeepByCriteria(lst, cfg.criteria)
       /\ lst.price \in {NoneVal, Some(180000)}
       /\ lst.price = Some(180000) => lst.price_per_acre = Some(450000)
       /\ lst.price = NoneVal => lst.price_per_acre = NoneVal

\* the LandTitle item was yielded with acreage 40, price 180000 and 4500.0
C21_Witness ==
  \E lst \in LandRecords :
    lst.price = Some(180000) /\ lst.price_per_acre = Some(450000)

\* ------------------------------------------------------------ C23
\* the sum of the weights of the signals that need no number: the text and
\* location signals, and the preferred domain
NonNumericSignals(title, snippet, domain, c, preferred) ==
  LET s == Lower(snippet)
      t == Lower(title)
      st == Lower(c.state)
      co == Lower(c.county_normalized)
      pref == [i \in 1..Len(preferred) |-> Lower(preferred[i])]
  IN  (IF HasEither(s, t, <<"land", "for", "sale">>) THEN 6 ELSE 0)
    + (IF HasEither(s, t, <<"acre">>) THEN 4 ELSE 0)
    + (IF HasEither(s, t, <<"$">>) THEN 4 ELSE 0)
    + (IF MentionsParcel(snippet) THEN 3 ELSE 0)
    + (IF st # <<>> /\ HasEither(s, t, st) THEN 2 ELSE 0)
    + (IF co # <<>> /\ HasEither(s, t, co) THEN 3 ELSE 0)
    + (IF IsPreferred(domain, pref) THEN 1 ELSE 0)

\* C23: the score is never negative and never below the sum of the
\* non-numeric signals; it is exactly that sum when neither an acreage nor a
\* price per acre can be read off the snippet, an unknown acreage adds and
\* takes nothing (only the price-per-acre signal can add), and so does an
\* unknown price per acre (only the acreage signals can add).
C23_UnknownNeverPenalizes ==
  ScoredProbe =>
    LET nn == NonNumericSignals(probe.title, probe.snippet, probe.domain,
                                probe.criteria, ParseSources(probe.env))
        ac == ParseAcres(probe.snippet)
        ppa == ParsePricePerAcre(probe.snippet)
    IN  /\ result[1] >= 0
        /\ result[1] >= nn
        /\ (ac = NoneVal /\ ppa = NoneVal) => result[1] = nn
        /\ ac = NoneVal => result[1] - nn \in {0, 6}
        /\ ppa = NoneVal => result[1] - nn \in {0, 2, 4}

\* "LAND for sale" over the snippet "parcels": no number to read, 3 + 1.5
C23_Witness ==
  /\ ScoredProbe
  /\ probe.title = <<"LAND", "for", "sale">>
  /\ probe.snippet = <<"parcels">>
  /\ ParsePrice(probe.snippet) = NoneVal
  /\ ParseAcres(probe.snippet) = NoneVal
  /\ ParsePricePerAcre(probe.snippet) = NoneVal
  /\ probe.criteria = CritIndiana
  /\ probe.env = <<>>
  /\ result = Some(9)

\* ------------------------------------------------------------ C24
Filtered == pc = "returned" /\ probe.fn = "keep_by_criteria"

\* the criteria c with no acreage bound configured
NoAcreBounds(c) == [c EXCEPT !.min_acres = NoneVal, !.max_acres = NoneVal]

\* C24: the filter drops a record whose acreage is known and below a
\* configured minimum or above a configured maximum; a record whose acreage
\* is unknown, or one filtered with no acreage bound configured, is kept or
\* dropped as it is when the acreage bounds are taken out of the criteria.
C24_AcreageBounds ==
  Filtered =>
    LET lst == probe.lst
        c == probe.criteria
        below == c.min_acres # NoneVal /\ lst.acres # NoneVal
                   /\ lst.acres[1] < c.min_acres[1]
        above == c.max_acres # NoneVal /\ lst.acres # NoneVal
                   /\ lst.acres[1] > c.max_acres[1]
    IN  /\ (below \/ above) => result = Some(FALSE)
        /\ ~(below \/ above) =>
             result = Some(KeepByCriteria(lst, NoAcreBounds(c)))

\* 2 acres under a minimum of 5, nothing else configured: dropped
C24_Witness ==
  /\ Filtered
  /\ probe.lst.acres = Some(2)
  /\ probe.criteria.min_acres = Some(5)
  /\ probe.criteria.max_acres = NoneVal
  /\ probe.criteria.max_price_per_acre = NoneVal
  /\ ~probe.criteria.power_nearby
  /\ ~probe.criteria.exclude_flood_zone
  /\ probe.criteria.zoning_whitelist = <<>>
  /\ result = Some(FALSE)

\* ------------------------------------------------------------ C25
\* the criteria c with no maximum price per acre configured
NoPpaBound(c) == [c EXCEPT !.max_price_per_acre = NoneVal]

\* the price per acre C25 has the filter compare, in cents
EffectivePpa(lst) ==
  IF lst.price_per_acre # NoneVal THEN lst.price_per_acre
  ELSE IF lst.price # NoneVal /\ lst.acres # NoneVal /\ lst.acres[1] # 0
       THEN Some((200 * lst.price[1] + lst.acres[1]) \div (2 * lst.acres[1]))
       ELSE NoneVal

\* C25: with a maximum configured, the filter drops a record whose price per
\* acre (its own when known, price / acreage otherwise) is above the maximum,
\* and this rule drops no other record; price 200000 over 40 acres is compared
\* as 5000.0, the value the pipeline's price_per_acre gives.
C25_PpaBound ==
  Filtered =>
    LET lst == probe.lst
        c == probe.criteria
        over == c.max_price_per_acre # NoneVal /\ EffectivePpa(lst) # NoneVal
                  /\ EffectivePpa(lst)[1] > c.max_price_per_acre[1]
    IN  /\ over => result = Some(FALSE)
        /\ ~over => result = Some(KeepByCriteria(lst, NoPpaBound(c)))
        /\ (lst.price = Some(200000) /\ lst.acres = Some(40)
              /\ lst.price_per_acre = NoneVal) =>
             /\ FilterPpa(lst) = Some(500000)
             /\ FilterPpa(lst) = PricePerAcre(lst.price, lst.acres)

\* price 200000 over 2 acres, no price per acre of its own, maximum 8000:
\* dropped by the computed 100000.0
C25_Witness ==
  /\ Filtered
  /\ probe.lst.price = Some(200000)
  /\ probe.lst.acres = Some(2)
  /\ probe.lst.price_per_acre = NoneVal
  /\ probe.criteria.max_price_per_acre = Some(800000)
  /\ probe.criteria.min_acres = NoneVal
  /\ probe.criteria.max_acres = NoneVal
  /\ ~probe.criteria.power_nearby
  /\ ~probe.criteria.exclude_flood_zone
  /\ probe.criteria.zoning_whitelist = <<>>
  /\ result = Some(FALSE)

\* ------------------------------------------------------------ C26
Hints == {"acres", "price", "price_per_acre", "power_hint", "flood_zone", "zoning_code"}

\* the record lst with the hint h replaced by unknown
Without(lst, h) ==
  CASE h = "acres" -> [lst EXCEPT !.acres = NoneVal]
    [] h = "price" -> [lst EXCEPT !.price = NoneVal]
    [] h = "price_per_acre" -> [lst EXCEPT !.price_per_acre = NoneVal]
    [] h = "power_hint" -> [lst EXCEPT !.extras.power_hint = NoneVal]
    [] h = "flood_zone" -> [lst EXCEPT !.extras.flood_zone = NoneVal]
    [] h = "zoning_code" -> [lst EXCEPT !.extras.zoning_code = NoneVal]

\* C26 as stated: a record the filter keeps is kept as well once any one of
\* its hints is replaced by unknown.
C26_MissingNeverPenalizes ==
  (Filtered /\ result = Some(TRUE)) =>
    \A h \in Hints : KeepByCriteria(Without(probe.lst, h), probe.criteria)

\* C26 amended: a record the filter keeps is kept as well once its acreage,
\* price, power hint, flood zone or zoning code is replaced by unknown; once
\* its price per acre is replaced by unknown it is kept unless a maximum is
\* configured, price and a non-zero acreage are known, and price / acreage is
\* above the maximum.
C26_MissingPpaFallsBack ==
  (Filtered /\ result = Some(TRUE)) =>
    LET lst == probe.lst
        c == probe.criteria
        ratioOver ==
          /\ c.max_price_per_acre # NoneVal
          /\ lst.price # NoneVal
          /\ lst.acres # NoneVal
          /\ lst.acres[1] # 0
          /\ RoundedRatio(lst.price[1], lst.acres[1]) > c.max_price_per_acre[1]
    IN  /\ \A h \in Hints \ {"price_per_acre"} : KeepByCriteria(Without(lst, h), c)
        /\ KeepByCriteria(Without(lst, "price_per_acre"), c) <=> ~ratioOver

\* a kept record with every hint known, under criteria with everything
\* configured: 5 acres, 200000, 4500.0 an acre, power, zone X, code AG1
C26_Witness ==
  /\ Filtered
  /\ result = Some(TRUE)
  /\ probe.lst.acres = Some(5)
  /\ probe.lst.price = Some(200000)
  /\ probe.lst.price_per_acre = Some(450000)
  /\ probe.lst.extras.power_hint = Some(TRUE)
  /\ probe.lst.extras.flood_zone = Some(<<"X">>)
  /\ probe.lst.extras.zoning_code = Some(<<"A", "G", "1">>)
  /\ probe.criteria.min_acres = Some(5)
  /\ probe.criteria.max_acres = Some(10)
  /\ probe.criteria.max_price_per_acre = Some(800000)
  /\ probe.criteria.power_nearby
  /\ probe.criteria.exclude_flood_zone
  /\ probe.criteria.zoning_whitelist = <<<<"a", "g">>>>

\* ------------------------------------------------------------ C27
\* the latest turn of host h, when it had one
HadTurn(h) == limiter.turns[h] # <<>>

LatestTurn(h) == limiter.turns[h][1]

\* C27: for every host, a turn is granted at least MinInterval plus the
\* caller's jitter after the turn before it, whichever path and run either
\* belongs to; the host's last-turn time is the time of its latest turn in
\* every state, and a step that begins a later run leaves it as it is.
C27_TurnsSpaced ==
  /\ [](\A h \in Hosts :
          /\ limiter.last[h] = IF HadTurn(h) THEN Some(LatestTurn(h).t) ELSE NoneVal
          /\ (HadTurn(h) /\ LatestTurn(h).since # NoneVal) =>
               LatestTurn(h).t - LatestTurn(h).since[1]
                 >= MinInterval + LatestTurn(h).jitter)
  /\ [][limiter'.run # limiter.run => limiter'.last = limiter.last]_vars

\* in the second run a path waits out the interval after a turn that was
\* granted in the first run
C27_Witness ==
  /\ limiter.run = 2
  /\ \E k \in Waiters :
       /\ callers[k].pc = "sleep"
       /\ callers[k].prev # NoneVal
       /\ limiter.now < Due(k)
       /\ LatestTurn(callers[k].host[1]).run = 1

\* ------------------------------------------------------------ C28
\* the paths inside waitTurn for host h
Sleepers(h) == {k \in Waiters : callers[k].pc = "sleep" /\ callers[k].host = Some(h)}

\* C28: at most one path at a time is inside waitTurn for a host, and the
\* last-turn time a granted caller read is the time of the turn just before
\* its own, so no two turns are granted for the same last-turn time; a path
\* can enter waitTurn whenever no other path is inside it for the same host,
\* and can leave it as soon as its own turn is due, whatever the paths for
\* other hosts do.
C28_SameHostSerialized ==
  /\ \A h \in Hosts :
       /\ Cardinality(Sleepers(h)) <= 1
       /\ HadTurn(h) => LatestTurn(h).prev = LatestTurn(h).since
  /\ \A k \in Waiters :
       /\ (callers[k].pc = "want" /\ Sleepers(callers[k].host[1]) = {}) =>
            ENABLED Enter(k)
       /\ (callers[k].pc = "sleep" /\ limiter.now >= Due(k)) => ENABLED Grant(k)

\* path 1 is inside waitTurn for host a, its turn not yet due; path 2 wants a
\* turn for host a too and has to wait for path 1
C28_Witness ==
  /\ callers[1].pc = "sleep"
  /\ callers[1].host = Some(<<"a">>)
  /\ limiter.now < Due(1)
  /\ callers[2].pc = "want"
  /\ callers[2].host = Some(<<"a">>)
  /\ ~ENABLED Enter(2)

\* ------------------------------------------------------------ C29
\* the path that runs verify_url
Verifier == CHOOSE k \in Waiters : FnOf(k) = "verify_url"

\* C29: verify_url takes a turn of the rate limiter before its first request
\* and makes at most RetryCount + 1 requests; it answers network-error when the
\* last request failed in transport (only after RetryCount + 1 requests), else
\* dead for a status >= 400 whatever the content, else wrong-content-type for
\* content that is not HTML, else off-topic when nothing topical is found, and
\* ok only when none of these applies.
C29_VerifyClassifiesInOrder ==
  LET v == callers[Verifier]
      r == v.seen
  IN  /\ v.attempts <= RetryCount + 1
      /\ (v.pc \in {"fetch", "done"} \/ v.attempts > 0) => v.paced >= 1
      /\ v.pc = "done" =>
           /\ v.attempts >= 1
           /\ r = Failure =>
                /\ v.out.reason = "network-error" /\ ~v.out.ok
                /\ v.attempts = RetryCount + 1
           /\ (r # Failure /\ r.status >= 400) => v.out.reason = "dead" /\ ~v.out.ok
           /\ (r # Failure /\ r.status < 400 /\ r.ctype # "text/html") =>
                v.out.reason = "wrong-content-type" /\ ~v.out.ok
           /\ (r # Failure /\ r.status < 400 /\ r.ctype = "text/html" /\ ~r.topical) =>
                v.out.reason = "off-topic" /\ ~v.out.ok
           /\ v.out.ok <=>
                (r # Failure /\ r.status < 400 /\ r.ctype = "text/html" /\ r.topical)

\* the first request failed in transport, the second was answered 404 with a
\* PDF body: dead, not wrong-content-type
C29_Witness ==
  /\ callers[Verifier].pc = "done"
  /\ callers[Verifier].attempts = 2
  /\ callers[Verifier].paced = 1
  /\ callers[Verifier].seen # Failure
  /\ callers[Verifier].seen.status = 404
  /\ callers[Verifier].seen.ctype = "application/pdf"
  /\ callers[Verifier].out.reason = "dead"

\* ------------------------------------------------------------ C30
\* the budget units the current run has consumed: one per verification made,
\* and the one reserved for the verification under way
UnitsUsed == SumLen(verifyLog, StrippedLinks) + (IF reserved = NoneVal THEN 0 ELSE 1)

UnitsUsedHost(h) ==
  VerifyCountHost(h) + (IF reserved # NoneVal /\ Host(reserved[1]) = h THEN 1 ELSE 0)

\* C30: every run, the first and a later one alike, starts with a ledger at
\* the configured global and per-host caps and an empty seen set, however the
\* earlier run ended; during a run the counters are the caps less the units
\* this run consumed, and the seen set holds the URLs this run scored.
C30_FreshLedgerPerRun ==
  /\ [][(pc = "start" /\ pc' = "query") =>
          /\ budget' = NewBudget(cfg.global_cap, cfg.host_cap)
          /\ seen_urls' = {}]_vars
  /\ []((Enabled(cfg) /\ pc # "start") =>
          /\ budget.total_left = cfg.global_cap - UnitsUsed
          /\ \A h \in Hosts : budget.per_host_left[h] = cfg.host_cap - UnitsUsedHost(h)
          /\ seen_urls = {n \in NormLinks : scoreLog[n] > 0})

\* the earlier run exhausted its budget; the second run has consumed its own
\* first unit
C30_Witness ==
  /\ limiter.run = 2
  /\ result = Some("exhausted")
  /\ reserved # NoneVal
  /\ UnitsUsed = 1
  /\ budget.total_left = cfg.global_cap - 1

\* ------------------------------------------------------------ C31
\* where the API returned the link of the j-th ranked candidate first
RawPos(j) ==
  CHOOSE k \in 1..Len(items) :
    /\ ItemUrl(items[k]) # <<>>
    /\ SeenKey(Strip(ItemUrl(items[k]))) = SeenKey(UrlAt(j))
    /\ \A m \in 1..(k - 1) :
         ItemUrl(items[m]) = <<>>
           \/ SeenKey(Strip(ItemUrl(items[m]))) # SeenKey(UrlAt(j))

\* the records emitted for the current query, as positions in `emitted`
OfThisQuery ==
  {i \in 1..Len(emitted) : emitted[i].lst.extras.query = QueryList[qi]}

\* the rank of the candidate the i-th record was built from
RankOf(i) == CHOOSE j \in 1..Len(scored) : UrlAt(j) = emitted[i].link

\* C31: the frontier of a query is in order of non-increasing score, equal
\* scores in the order the API returned them; the inner loop hands the
\* candidates to the gate, the ledger and the verifier one by one in that
\* order, never going back; and the records of a query are emitted in it.
C31_RankOrder ==
  /\ [](pc \in {"rank", "verify", "yield"} =>
          /\ \A i, j \in 1..Len(scored) :
               i < j =>
                 /\ scored[i].s >= scored[j].s
                 /\ scored[i].s = scored[j].s => RawPos(i) < RawPos(j)
          /\ \A i, j \in OfThisQuery : i < j => RankOf(i) < RankOf(j)
          /\ \A i \in OfThisQuery : RankOf(i) <= ci
          /\ reserved # NoneVal => reserved = Some(CandUrl))
  /\ [](\A i, j \in 1..Len(emitted) :
          (i < j /\ emitted[i].lst.extras.query = emitted[j].lst.extras.query) =>
            emitted[i].lst.extras.score >= emitted[j].lst.extras.score)
  /\ [][(pc \in {"rank", "verify", "yield"} /\ qi' = qi) =>
          /\ scored' = scored
          /\ ci' \in {ci, ci + 1}
          /\ \A u \in StrippedLinks :
               verifyLog'[u] # verifyLog[u] => u = CandUrl
          /\ draw' # draw => ci <= Len(scored)]_vars

\* two candidates of equal score, ranked and emitted in the order the API
\* returned them
C31_Witness ==
  /\ pc = "yield"
  /\ Len(scored) = 2
  /\ scored[1].s = scored[2].s
  /\ scored[1].it = items[1]
  /\ scored[2].it = items[2]
  /\ ci = 2
  /\ Len(emitted) = 2
  /\ emitted[1].link = UrlAt(1)
  /\ emitted[2].link = UrlAt(2)


\* ------------------------------------------------------------ exploration rates
\* RS_EXPLORATION_RATE set to 0.0 or to 1.0, in tenths
GateRates == {0, 10}

\* runs at either end of the exploration rate, with one budget unit
GateConfigs == {c \in ConfigsAt(GateRates) : c.global_cap = 1}

InitGate == InitRun(GateConfigs, FrontierItems, MaxRaw, VerifyOutcomes)

SpecGate == InitGate /\ [][Next]_vars

\* the step of the inner loop that ends at `continue` of line 210
GateDropped == pc' = "rank" /\ ci' = ci + 1 /\ qi' = qi

\* C32: a candidate scoring at or above the threshold is never dropped by
\* the gate; with exploration rate 0 every candidate below the threshold is
\* dropped, so that none reaches try_consume or verify_url; with exploration
\* rate 1 no candidate is dropped
C32_GateByDraw ==
  /\ [](pc \in {"verify", "yield"} /\ cfg.explore_rate = 0
          => Cand.s >= ScoreThreshold)
  /\ [][pc = "rank" /\ ci <= Len(scored)
          => /\ Cand.s >= ScoreThreshold => ~GateDropped
             /\ Cand.s < ScoreThreshold /\ cfg.explore_rate = 0
                  => GateDropped /\ budget' = budget /\ verifyLog' = verifyLog
             /\ cfg.explore_rate = 10 => ~GateDropped]_vars


\* the keys scored in an earlier query of the run
ScoredEarlier == {n \in NormLinks : scoreLog[n] > 0 /\ n \notin FrontierKeys(scored)}

\* C33: a URL is marked seen when it is scored, before any verification of
\* its query; a URL scored in an earlier query, verified there or not, is
\* never scored, ranked, verified or emitted in a later query of the run.
C33_SeenWhenScored ==
  /\ [](FrontierKeys(scored) \subseteq seen_urls)
  /\ [][\A n \in ScoredEarlier :
          /\ scoreLog'[n] = scoreLog[n]
          /\ n \notin FrontierKeys(scored')
          /\ \A u \in StrippedLinks : NormUrl(u) = n => verifyLog'[u] = verifyLog[u]
          /\ emitted' # emitted => NormUrl(emitted'[Len(emitted')].link) # n]_vars

\* a later query answers with a link that passed the gate of an earlier
\* query, was given up there after a failed try_consume and never verified
C33_Witness ==
  /\ pc = "rank"
  /\ qi > 1
  /\ budget.total_left > 0
  /\ \E k \in 1..Len(items) :
       LET n == NormUrl(ItemUrl(items[k]))
       IN  /\ n \in ScoredEarlier
           /\ VerifyCount(n) = 0
           /\ budget.per_host_left[Host(n)] = 0
           /\ Scored(items[k], n, cfg.criteria, cfg.sources).s >= ScoreThreshold


\* C34: a query whose request was sent and whose iteration came to its end
\* (no items, every candidate gone through, or a refused try_consume) is
\* followed by exactly one sleep, in the step that leaves the query: after
\* its last verification and before the request of the next query. A query
\* the run stops at because the ledger is exhausted gets no sleep.
C34_OneSleepPerQuery ==
  /\ [](pc \in {"query", "done"} => sleeps = cse_calls)
  /\ [](pc \in {"rank", "verify", "yield"} => sleeps + 1 = cse_calls)
  /\ [][/\ qi' = qi + 1 => sleeps' = sleeps + 1
        /\ sleeps' # sleeps
             => /\ sleeps' = sleeps + 1
                /\ qi' = qi + 1
                /\ pc' = "query"
                /\ verifyLog' = verifyLog /\ emitted' = emitted
                /\ pc = "query" => cse_calls' = cse_calls + 1
                /\ pc # "query" => pc = "rank" /\ cse_calls' = cse_calls
        /\ pc = "query" /\ budget.exhausted
             => sleeps' = sleeps /\ cse_calls' = cse_calls]_vars

\* a run that slept once after a query that was cut short by a refused
\* try_consume, and stopped without a sleep at the query after it
C34_Witness ==
  /\ pc = "done"
  /\ budget.exhausted
  /\ qi <= Len(QueryList)
  /\ cse_calls = qi - 1
  /\ sleeps = cse_calls
  /\ sleeps > 0
  /\ \E u \in StrippedLinks : verifyLog[u] # <<>>


\* C36: no request is sent to the discovery API while the ledger has no
\* global unit left: once the last unit is consumed, also on the last
\* candidate of a query, no later query is fetched.
C36_NoFetchAtZero == [][cse_calls' # cse_calls => budget.total_left > 0]_vars


\* the hint fields of a verification and of a record
HintFields == {"price", "acres", "price_per_acre"}

\* C35: an emitted record carries every price, acreage and price per acre
\* its verification reported, the value 0 included; a value read off the
\* snippet or computed is there only where the verification reported none.
C35_VerifierFirst ==
  \A i \in 1..Len(emitted) : \A f \in HintFields :
    emitted[i].ck[f] # <<>> => emitted[i].lst[f] = emitted[i].ck[f]

\* C37: no two records emitted in a run carry the same URL, also when two
\* candidate links verify to the same canonical URL.
C37_DistinctUrls ==
  \A i, j \in 1..Len(emitted) : i # j => emitted[i].lst.url # emitted[j].lst.url


\* the path that runs _get
Getter == CHOOSE k \in Waiters : FnOf(k) = "_get"

\* where the call of _get stands
GetCall == callers[Getter]

\* C38: one call of _get sends at most CONNECT_RETRIES + 1 requests, each
\* after a pause of its own; a new attempt follows only a request that failed
\* in transport; an answered request ends the call, with None for a status of
\* 400 or more, and so does the failure of the last allowed request.
C38_BoundedPacedRetry ==
  /\ [](pc = "limiter"
          => /\ GetCall.attempts <= RetryCount + 1
             /\ GetCall.paced =
                  (IF GetCall.pc = "fetch" THEN GetCall.attempts + 1
                   ELSE GetCall.attempts)
             /\ GetCall.pc = "done"
                  => IF GetCall.seen = Failure
                     THEN GetCall.attempts = RetryCount + 1 /\ ~GetCall.out.ok
                     ELSE GetCall.out.ok = (GetCall.seen.status < 400))
  /\ [][pc = "limiter"
          => /\ GetCall.pc = "fetch" /\ GetCall'.pc \notin {"fetch", "done"}
                  => /\ GetCall'.pc = "want"
                     /\ GetCall'.seen = NoFetch
                     /\ GetCall'.attempts = GetCall.attempts + 1
                     /\ GetCall'.attempts <= RetryCount
             /\ GetCall.pc = "fetch" /\ GetCall'.pc = "fetch"
                  => GetCall' = GetCall
             /\ GetCall.pc = "done" => GetCall' \in {GetCall, Resting}]_vars

\* _get gave up after its last allowed request failed, each request paced
C38_Witness ==
  /\ pc = "limiter"
  /\ callers[Getter].pc = "done"
  /\ callers[Getter].seen = Failure
  /\ callers[Getter].attempts = RetryCount + 1
  /\ callers[Getter].paced = RetryCount + 1
  /\ ~callers[Getter].out.ok


\* the most Listings an area yields: the limit is tested after a yield
AreaCap == IF probe.max_visible < 1 THEN 1 ELSE probe.max_visible

\* C39 amended: once _run_one_area has left, however it left, a driver that
\* was created has been quit exactly once, or not at all when
\* keep_open_on_error and debug are both set, and no driver is quit before;
\* the area yields at most max_visible Listings, and one Listing when
\* max_visible is below 1.
C39_QuitOnceCappedAfterYield ==
  pc = "zillow" =>
    /\ area.quits <= 1
    /\ area.at = "left" /\ area.drv # "none"
         => area.quits = (IF probe.keep_open_on_error /\ probe.debug THEN 0 ELSE 1)
    /\ area.at # "left" => area.quits = 0
    /\ area.out <= AreaCap
    /\ area.how = "max_visible" => area.out = AreaCap

\* the consumer closed the generator at its second Listing, and the driver
\* was quit
C39_Witness ==
  /\ pc = "zillow"
  /\ area.at = "left"
  /\ area.how = "closed"
  /\ area.out > 1
  /\ area.drv = "quit"
  /\ area.quits = 1

\* C39: once _run_one_area has left, however it left, a driver that was
\* created has been quit exactly once, or not at all when keep_open_on_error
\* and debug are both set; and the area never yields more than max_visible
\* Listings.
C39_QuitOnceAndCapped ==
  pc = "zillow" =>
    /\ area.quits <= 1
    /\ area.at = "left" /\ area.drv # "none"
         => area.quits = (IF probe.keep_open_on_error /\ probe.debug THEN 0 ELSE 1)
    /\ area.at # "left" => area.quits = 0
    /\ area.out <= probe.max_visible

====
